---------------------------- MODULE Spec2Model ----------------------------
(***************************************************************************)
(* Discovery & resolution engine of the favicon / OpenGraph image API:     *)
(* page analysis (src/lib/page-analyzer.ts), the candidate resolver        *)
(* (src/lib/og-finder.ts), and the request handlers with their deadline    *)
(* race and fallback cascade (src/index.ts).                               *)
(*                                                                         *)
(* JavaScript strings are sequences of one-character strings, so that      *)
(* startsWith / includes / split / parseInt are computed, not assumed.     *)
(***************************************************************************)
EXTENDS Integers, Sequences, FiniteSets, TLC

VARIABLES
    config,         \* AppConfig of the process: [USE_FALLBACK_API]
    page,           \* what the remote site answers to this analysis
    input,          \* arguments of analyzePage: [url, size]
    pageData,       \* result of analyzePage, or NoPageData
    scan,           \* the two resolver loops: "fav" and "og"
    req,            \* the request handlers, one per request slot
    cachedFallback, \* process-wide cached default image (module state)
    loadCount,      \* number of loads of the default image performed
    history         \* history variable: what the world answered to each try,
                    \* the requests fetchHtml issued for the page, the
                    \* requests and extractor runs of analyzePage in order,
                    \* the URL it fetched, and the leading bytes of the
                    \* last payload a resolver was given

vars == <<config, page, input, pageData, scan, req, cachedFallback, loadCount, history>>

-----------------------------------------------------------------------------
(* Bounds of the model *)

\* <link> elements of a page
MaxLinks == 2
\* icons of a manifest
MaxIcons == 2
\* og:image* <meta> elements of a page
MaxMetas == 3
\* candidates of a list handed directly to the resolver
MaxImages == 3
\* concurrent requests
MaxRequests == 2
\* cap on the load counter
MaxLoads == 3
\* config.MAX_IMAGE_SIZE, in bytes
MAX_IMAGE_SIZE == 2

-----------------------------------------------------------------------------
(* JavaScript values and strings *)

Undefined == [t |-> "undefined", n |-> 0]
NaN == [t |-> "NaN", n |-> 0]
Num(n) == [t |-> "number", n |-> n]

\* ToBoolean of a number | undefined
Truthy(v) == v.t = "number" /\ v.n # 0

\* a string | undefined value: Str(s) or Undefined
Str(s) == [t |-> "string", s |-> s]

\* a || b on string | undefined values
Or(a, b) == IF a.t = "string" /\ a.s # <<>> THEN a ELSE b

Digits == {"0", "1", "2", "3", "4", "5", "6", "7", "8", "9"}

DigitVal(c) ==
    CASE c = "0" -> 0 [] c = "1" -> 1 [] c = "2" -> 2 [] c = "3" -> 3
      [] c = "4" -> 4 [] c = "5" -> 5 [] c = "6" -> 6 [] c = "7" -> 7
      [] c = "8" -> 8 [] c = "9" -> 9

DigitChar(d) == <<"0", "1", "2", "3", "4", "5", "6", "7", "8", "9">>[d + 1]

StartsWith(s, p) == Len(s) >= Len(p) /\ SubSeq(s, 1, Len(p)) = p

Letters ==
    {"a", "b", "c", "d", "e", "f", "g", "h", "i", "j", "k", "l", "m",
     "n", "o", "p", "q", "r", "s", "t", "u", "v", "w", "x", "y", "z"}

\* the reference carries a scheme: a letter, then letters, digits, "+", "-"
\* or ".", then ":"
HasScheme(ref) ==
    \E i \in 2..Len(ref) :
        /\ ref[i] = ":"
        /\ ref[1] \in Letters
        /\ \A j \in 1..(i - 1) : ref[j] \in Letters \cup Digits \cup {"+", "-", "."}

Includes(s, w) == \E i \in 1..(Len(s) - Len(w) + 1) : SubSeq(s, i, i + Len(w) - 1) = w

\* index of the last character of the run of digits that starts at i
DigitRunEnd(s, i) ==
    CHOOSE j \in i..Len(s) :
        /\ \A k \in i..j : s[k] \in Digits
        /\ j = Len(s) \/ s[j + 1] \notin Digits

RECURSIVE DigitsToNat(_)
DigitsToNat(s) ==
    IF s = <<>> THEN 0
    ELSE 10 * DigitsToNat(SubSeq(s, 1, Len(s) - 1)) + DigitVal(s[Len(s)])

\* parseInt(s, 10) on strings without leading blanks or sign
ParseInt(s) ==
    IF s = <<>> \/ s[1] \notin Digits THEN NaN
    ELSE Num(DigitsToNat(SubSeq(s, 1, DigitRunEnd(s, 1))))

RECURSIVE NumToStr(_)
NumToStr(n) ==
    IF n < 10 THEN <<DigitChar(n)>>
    ELSE NumToStr(n \div 10) \o <<DigitChar(n % 10)>>

RECURSIVE Trim(_)
Trim(s) ==
    IF s = <<>> THEN s
    ELSE IF s[1] = " " THEN Trim(Tail(s))
    ELSE IF s[Len(s)] = " " THEN Trim(SubSeq(s, 1, Len(s) - 1))
    ELSE s

\* the characters of s before the first one in stops
TakeUntil(s, stops) ==
    LET hits == {i \in 1..Len(s) : s[i] \in stops}
    IN IF hits = {} THEN s
       ELSE SubSeq(s, 1, (CHOOSE i \in hits : \A k \in hits : i <= k) - 1)

\* s.split('.').pop()
LastDotPart(s) ==
    LET dots == {i \in 1..Len(s) : s[i] = "."}
    IN IF dots = {} THEN s
       ELSE SubSeq(s, (CHOOSE i \in dots : \A k \in dots : i >= k) + 1, Len(s))

RECURSIVE encodeURIComponent(_)
encodeURIComponent(s) ==
    IF s = <<>> THEN <<>>
    ELSE (CASE s[1] = ":" -> <<"%", "3", "A">>
            [] s[1] = "/" -> <<"%", "2", "F">>
            [] OTHER -> <<s[1]>>) \o encodeURIComponent(Tail(s))

S_http == <<"h","t","t","p">>
S_data == <<"d","a","t","a",":">>
S_https == <<"h","t","t","p","s",":">>
S_httpsSlashes == <<"h","t","t","p","s",":","/","/">>
S_httpSlashes == <<"h","t","t","p",":","/","/">>
S_svg == <<"s","v","g">>
S_png == <<"p","n","g">>
S_webp == <<"w","e","b","p">>
S_gif == <<"g","i","f">>
S_ico == <<"i","c","o">>
S_jpeg == <<"j","p","e","g">>
S_jpg == <<"j","p","g">>
S_icon == <<"i","c","o","n">>
S_appleTouchIcon == <<"a","p","p","l","e","-","t","o","u","c","h","-","i","c","o","n">>
S_maskIcon == <<"m","a","s","k","-","i","c","o","n">>
S_faviconIco == <<"/","f","a","v","i","c","o","n",".","i","c","o">>
S_appleTouchIconPng == <<"/","a","p","p","l","e","-","t","o","u","c","h","-","i","c","o","n",".","p","n","g">>
S_googleApi == <<"h","t","t","p","s",":","/","/","w","w","w",".","g","o","o","g","l","e",".","c","o","m","/","s","2","/","f","a","v","i","c","o","n","s","?","d","o","m","a","i","n","=">>
S_sz == <<"&","s","z","=">>

\* validators.isDataUrl
isDataUrl(url) == StartsWith(url, S_data)

\* new URL(u).hostname, for u with an http(s) scheme and no userinfo
Hostname(u) ==
    LET rest == IF StartsWith(u, S_httpsSlashes) THEN SubSeq(u, 9, Len(u))
                ELSE IF StartsWith(u, S_httpSlashes) THEN SubSeq(u, 8, Len(u))
                ELSE u
    IN TakeUntil(rest, {"/", ":", "?", "#"})

-----------------------------------------------------------------------------
(* page-analyzer.ts: utility functions *)

parseSizes(sizes) ==
    LET starts == {i \in 1..Len(sizes) :
                      /\ sizes[i] \in Digits
                      /\ LET j == DigitRunEnd(sizes, i)
                         IN /\ j + 2 <= Len(sizes)
                            /\ sizes[j + 1] = "x"
                            /\ sizes[j + 2] \in Digits}
    IN IF sizes = <<>> \/ starts = {} THEN Undefined
       ELSE LET i == CHOOSE a \in starts : \A b \in starts : a <= b
            IN ParseInt(SubSeq(sizes, i, DigitRunEnd(sizes, i)))

\* faulty variant of SizeBonus: the bonuses of the two largest classes are
\* exchanged
SizeBonusExchanged(n) ==
    IF n >= 512 THEN 80
    ELSE IF n >= 256 THEN 90
    ELSE IF n >= 192 THEN 70
    ELSE IF n >= 128 THEN 60
    ELSE IF n >= 64 THEN 50
    ELSE IF n >= 32 THEN 40
    ELSE 0

SizeBonus(n) ==
    IF n >= 512 THEN 90
    ELSE IF n >= 256 THEN 80
    ELSE IF n >= 192 THEN 70
    ELSE IF n >= 128 THEN 60
    ELSE IF n >= 64 THEN 50
    ELSE IF n >= 32 THEN 40
    ELSE 0

\* faulty variant of calculateFaviconScore: the score starts from 0
calculateFaviconScoreFromZero(size, type, rel) ==
    (IF Includes(type, S_svg) THEN 100 ELSE 0)
    + (IF Truthy(size) THEN SizeBonus(size.n) ELSE 0)
    + (IF Includes(type, S_png) THEN 20
       ELSE IF Includes(type, S_webp) THEN 15
       ELSE IF Includes(type, S_gif) THEN 10
       ELSE IF Includes(type, S_ico) THEN 5
       ELSE 0)
    + (IF Includes(rel, S_appleTouchIcon) THEN 10 ELSE 0)
    - (IF Includes(rel, S_maskIcon) THEN 10 ELSE 0)

calculateFaviconScore(size, type, rel) ==
    50
    + (IF Includes(type, S_svg) THEN 100 ELSE 0)
    + (IF Truthy(size) THEN SizeBonus(size.n) ELSE 0)
    + (IF Includes(type, S_png) THEN 20
       ELSE IF Includes(type, S_webp) THEN 15
       ELSE IF Includes(type, S_gif) THEN 10
       ELSE IF Includes(type, S_ico) THEN 5
       ELSE 0)
    + (IF Includes(rel, S_appleTouchIcon) THEN 10 ELSE 0)
    - (IF Includes(rel, S_maskIcon) THEN 10 ELSE 0)

AreaBonus(area) ==
    IF area >= 1200 * 630 THEN 90
    ELSE IF area >= 800 * 600 THEN 80
    ELSE IF area >= 600 * 400 THEN 70
    ELSE IF area >= 400 * 300 THEN 60
    ELSE IF area >= 300 * 200 THEN 50
    ELSE 0

DimensionBonus(d) ==
    IF d >= 1200 THEN 70
    ELSE IF d >= 800 THEN 60
    ELSE IF d >= 600 THEN 50
    ELSE 0

\* faulty variant of calculateOGScore: 180 for twitter:image
calculateOGScoreTwitter180(width, height, source, type) ==
    50
    + (IF source = "og:image" THEN 100
       ELSE IF source = "twitter:image" THEN 180
       ELSE IF source = "schema.org" THEN 60
       ELSE 0)
    + (IF Truthy(width) /\ Truthy(height) THEN AreaBonus(width.n * height.n)
       ELSE IF Truthy(width) THEN DimensionBonus(width.n)
       ELSE IF Truthy(height) THEN DimensionBonus(height.n)
       ELSE 0)
    + (IF Includes(type, S_png) THEN 20
       ELSE IF Includes(type, S_jpeg) \/ Includes(type, S_jpg) THEN 15
       ELSE IF Includes(type, S_webp) THEN 25
       ELSE 0)

\* faulty variant of calculateOGScore: 90 for schema.org
calculateOGScoreSchema90(width, height, source, type) ==
    50
    + (IF source = "og:image" THEN 100
       ELSE IF source = "twitter:image" THEN 80
       ELSE IF source = "schema.org" THEN 90
       ELSE 0)
    + (IF Truthy(width) /\ Truthy(height) THEN AreaBonus(width.n * height.n)
       ELSE IF Truthy(width) THEN DimensionBonus(width.n)
       ELSE IF Truthy(height) THEN DimensionBonus(height.n)
       ELSE 0)
    + (IF Includes(type, S_png) THEN 20
       ELSE IF Includes(type, S_jpeg) \/ Includes(type, S_jpg) THEN 15
       ELSE IF Includes(type, S_webp) THEN 25
       ELSE 0)

calculateOGScore(width, height, source, type) ==
    50
    + (IF source = "og:image" THEN 100
       ELSE IF source = "twitter:image" THEN 80
       ELSE IF source = "schema.org" THEN 60
       ELSE 0)
    + (IF Truthy(width) /\ Truthy(height) THEN AreaBonus(width.n * height.n)
       ELSE IF Truthy(width) THEN DimensionBonus(width.n)
       ELSE IF Truthy(height) THEN DimensionBonus(height.n)
       ELSE 0)
    + (IF Includes(type, S_png) THEN 20
       ELSE IF Includes(type, S_jpeg) \/ Includes(type, S_jpg) THEN 15
       ELSE IF Includes(type, S_webp) THEN 25
       ELSE 0)

resolveUrl(url, baseUrl) ==
    IF isDataUrl(url) THEN url
    ELSE IF StartsWith(url, S_http) THEN url
    ELSE IF StartsWith(url, <<"/", "/">>) THEN S_https \o url
    ELSE IF StartsWith(url, <<"/">>) THEN baseUrl \o url
    ELSE baseUrl \o <<"/">> \o url

-----------------------------------------------------------------------------
(* page-analyzer.ts: candidate extractors *)

\* the type of a <link> element: its type attribute, else the MIME of a data
\* URL (/^data:([^;,]+)/), else href.split('.').pop()
LinkType(el) ==
    IF el.type # <<>> THEN el.type
    ELSE IF isDataUrl(el.href)
         THEN TakeUntil(SubSeq(el.href, Len(S_data) + 1, Len(el.href)), {";", ","})
         ELSE LastDotPart(el.href)

LinkCandidate(el, baseUrl) ==
    [url |-> resolveUrl(el.href, baseUrl),
     size |-> parseSizes(el.sizes),
     format |-> LinkType(el),
     source |-> "link-tag",
     score |-> calculateFaviconScore(parseSizes(el.sizes), LinkType(el), el.rel),
     isFallback |-> "undefined"]

RECURSIVE extractFaviconFromLinkTags(_, _)
extractFaviconFromLinkTags(links, baseUrl) ==
    IF links = <<>> THEN <<>>
    ELSE (IF Includes(Head(links).rel, S_icon) /\ Head(links).href # <<>>
          THEN <<LinkCandidate(Head(links), baseUrl)>>
          ELSE <<>>) \o extractFaviconFromLinkTags(Tail(links), baseUrl)

ManifestCandidate(icon, baseUrl) ==
    [url |-> resolveUrl(icon.src, baseUrl),
     size |-> parseSizes(icon.sizes),
     format |-> icon.type,
     source |-> "manifest",
     score |-> 40,
     isFallback |-> "undefined"]

RECURSIVE ManifestIconCandidates(_, _)
ManifestIconCandidates(icons, baseUrl) ==
    IF icons = <<>> THEN <<>>
    ELSE (IF Head(icons).src # <<>>
          THEN <<ManifestCandidate(Head(icons), baseUrl)>>
          ELSE <<>>) \o ManifestIconCandidates(Tail(icons), baseUrl)

\* manifest: the answer to GET {baseUrl}/manifest.json
\*   kind "error": fetch rejects (network error, timeout)
\*        "non2xx": response.ok is false
\*        "badjson": response.json() rejects
\*        "noicons", "nonarray": manifest.icons is missing, is no array
\*        "icons": manifest.icons is the array icons
extractFaviconFromManifest(manifest, baseUrl) ==
    IF manifest.kind = "icons" THEN ManifestIconCandidates(manifest.icons, baseUrl)
    ELSE <<>>

\* the answers on which an exception is raised inside extractFaviconFromManifest
ManifestRaises(manifest) == manifest.kind \in {"error", "badjson"}

\* faulty variant of ManifestCatches: the body is not wrapped in try/catch
ManifestCatchesNothing(manifest) == FALSE

\* the whole body is inside try { } catch { }, which takes every exception
ManifestCatches(manifest) == TRUE

\* an exception leaves extractFaviconFromManifest
ManifestEscapes(manifest) == ManifestRaises(manifest) /\ ~ManifestCatches(manifest)

OgUrlProps == {"og:image", "og:image:url", "og:image:secure_url"}

\* the content of the last <meta property=prop> with content, "" if none
LastContent(metas, prop) ==
    LET hits == {i \in 1..Len(metas) : metas[i].property = prop /\ metas[i].content # <<>>}
    IN IF hits = {} THEN <<>>
       ELSE metas[CHOOSE i \in hits : \A k \in hits : i >= k].content

RECURSIVE OgUrls(_)
OgUrls(metas) ==
    IF metas = <<>> THEN <<>>
    ELSE (IF Head(metas).property \in OgUrlProps /\ Head(metas).content # <<>>
          THEN <<Head(metas).content>>
          ELSE <<>>) \o OgUrls(Tail(metas))

\* width, height and type are attached to the first collected image only
OgCandidate(metas, urls, i, baseUrl) ==
    LET w == IF i = 1 /\ LastContent(metas, "og:image:width") # <<>>
             THEN ParseInt(LastContent(metas, "og:image:width")) ELSE Undefined
        h == IF i = 1 /\ LastContent(metas, "og:image:height") # <<>>
             THEN ParseInt(LastContent(metas, "og:image:height")) ELSE Undefined
        ty == IF i = 1 THEN LastContent(metas, "og:image:type") ELSE <<>>
    IN [url |-> resolveUrl(urls[i], baseUrl),
        width |-> w,
        height |-> h,
        type |-> ty,
        source |-> "og:image",
        score |-> calculateOGScore(w, h, "og:image", ty),
        isFallback |-> "false"]

extractOGFromTags(metas, baseUrl) ==
    LET urls == OgUrls(metas)
    IN [i \in 1..Len(urls) |-> OgCandidate(metas, urls, i, baseUrl)]

\* twitter: content of the first <meta name="twitter:image">, "" if none
extractOGFromTwitterTags(twitter, baseUrl) ==
    IF twitter # <<>>
    THEN <<[url |-> resolveUrl(twitter, baseUrl),
            width |-> Undefined,
            height |-> Undefined,
            type |-> <<>>,
            source |-> "twitter:image",
            score |-> calculateOGScore(Undefined, Undefined, "twitter:image", <<>>),
            isFallback |-> "false"]>>
    ELSE <<>>

JsonLdCandidate(img, baseUrl) ==
    [url |-> resolveUrl(img.url, baseUrl),
     width |-> img.width,
     height |-> img.height,
     type |-> <<>>,
     source |-> "schema.org",
     score |-> calculateOGScore(img.width, img.height, "schema.org", <<>>),
     isFallback |-> "false"]

RECURSIVE JsonLdImages(_, _)
JsonLdImages(images, baseUrl) ==
    IF images = <<>> THEN <<>>
    ELSE (IF Head(images).url # <<>>
          THEN <<JsonLdCandidate(Head(images), baseUrl)>>
          ELSE <<>>) \o JsonLdImages(Tail(images), baseUrl)

\* blocks: the <script type="application/ld+json"> elements, each either
\* unparsable or the images of its schema items
RECURSIVE extractOGFromJsonLd(_, _)
extractOGFromJsonLd(blocks, baseUrl) ==
    IF blocks = <<>> THEN <<>>
    ELSE (IF Head(blocks).valid THEN JsonLdImages(Head(blocks).images, baseUrl)
          ELSE <<>>) \o extractOGFromJsonLd(Tail(blocks), baseUrl)

-----------------------------------------------------------------------------
(* metadata-extractor.ts *)

\* head: the content attribute of the first element each selector matches
\* (Undefined when it matches none or the element has no content), and the
\* text of <title>, "" when there is none
extractMetadata(head) ==
    [title |-> Or(Or(head.ogTitle, head.twitterTitle), Str(head.titleText)),
     description |-> Or(Or(head.ogDescription, head.twitterDescription), head.description),
     siteName |-> head.ogSiteName]

\* let metadata: PageMetadata = {}
NoMetadata == [title |-> Undefined, description |-> Undefined, siteName |-> Undefined]

-----------------------------------------------------------------------------
(* page-analyzer.ts: fetchHtml and analyzePage *)

\* faulty variant of fetchHtml: only a non-2xx answer is tried again
fetchHtmlThrowsOnError(pg) ==
    IF pg.attempt1 = "ok"
    THEN [ok |-> TRUE, attempts |-> 1, agents |-> <<"USER_AGENT">>]
    ELSE IF pg.attempt1 # "non2xx"
    THEN [ok |-> FALSE, attempts |-> 1, agents |-> <<"USER_AGENT">>]
    ELSE [ok |-> pg.attempt2 = "ok", attempts |-> 2,
          agents |-> <<"USER_AGENT", "BROWSER_USER_AGENT">>]

\* the two user-agent attempts. An attempt answers
\*   "ok"        a 2xx response whose body is read
\*   "non2xx"    a response with another status
\*   "error"     fetch rejects (network error, timeout)
\*   "bodyerror" a 2xx response whose body cannot be read: response.text()
\*               rejects (inside the try block, for the first attempt)
\* agents: the User-Agent of the requests issued, in order
fetchHtml(pg) ==
    IF pg.attempt1 = "ok"
    THEN [ok |-> TRUE, attempts |-> 1, agents |-> <<"USER_AGENT">>]
    ELSE [ok |-> pg.attempt2 = "ok", attempts |-> 2,
          agents |-> <<"USER_AGENT", "BROWSER_USER_AGENT">>]

\* fetchHtml has not been called
NoFetch == [ok |-> FALSE, attempts |-> 0, agents |-> <<>>]

\* faulty variant of InsertByScore: a sort that puts a candidate before its equals
RECURSIVE InsertByScoreBeforeEquals(_, _)
InsertByScoreBeforeEquals(sorted, c) ==
    IF sorted = <<>> THEN <<c>>
    ELSE IF Head(sorted).score > c.score
         THEN <<Head(sorted)>> \o InsertByScoreBeforeEquals(Tail(sorted), c)
         ELSE <<c>> \o sorted

\* Array.prototype.sort((a, b) => b.score - a.score): a stable sort
RECURSIVE InsertByScore(_, _)
InsertByScore(sorted, c) ==
    IF sorted = <<>> THEN <<c>>
    ELSE IF Head(sorted).score >= c.score
         THEN <<Head(sorted)>> \o InsertByScore(Tail(sorted), c)
         ELSE <<c>> \o sorted

RECURSIVE SortByScore(_)
SortByScore(list) ==
    IF list = <<>> THEN <<>>
    ELSE InsertByScore(SortByScore(SubSeq(list, 1, Len(list) - 1)), list[Len(list)])

\* ord is the position at which a candidate was pushed: the identity of the
\* object, kept to tell equal-looking candidates apart
WithOrd(list) == [i \in 1..Len(list) |-> list[i] @@ [ord |-> i]]

\* faulty variant of StaticFallbacks: only /favicon.ico is pushed
StaticFallbacksIcoOnly(baseUrl) ==
    << [url |-> baseUrl \o S_faviconIco, size |-> Undefined, format |-> <<>>,
        source |-> "fallback", score |-> 10, isFallback |-> "undefined"] >>

StaticFallbacks(baseUrl) ==
    << [url |-> baseUrl \o S_faviconIco, size |-> Undefined, format |-> <<>>,
        source |-> "fallback", score |-> 10, isFallback |-> "undefined"],
       [url |-> baseUrl \o S_appleTouchIconPng, size |-> Undefined, format |-> <<>>,
        source |-> "fallback", score |-> 20, isFallback |-> "undefined"] >>

\* faulty variant of FallbackApiCandidate: the candidate is pushed without its
\* isFallback mark
FallbackApiCandidateUnmarked(url, size) ==
    LET trimmedDomain == Trim(url)
        parsed == IF StartsWith(trimmedDomain, S_http) THEN trimmedDomain
                  ELSE S_httpsSlashes \o trimmedDomain
        formattedDomain == S_httpsSlashes \o Hostname(parsed)
    IN [url |-> S_googleApi \o encodeURIComponent(formattedDomain) \o S_sz
                  \o NumToStr(IF Truthy(size) THEN size.n ELSE 64),
        size |-> Undefined,
        format |-> <<>>,
        source |-> "fallback-api",
        score |-> 1,
        isFallback |-> "undefined"]

FallbackApiCandidate(url, size) ==
    LET trimmedDomain == Trim(url)
        parsed == IF StartsWith(trimmedDomain, S_http) THEN trimmedDomain
                  ELSE S_httpsSlashes \o trimmedDomain
        formattedDomain == S_httpsSlashes \o Hostname(parsed)
    IN [url |-> S_googleApi \o encodeURIComponent(formattedDomain) \o S_sz
                  \o NumToStr(IF Truthy(size) THEN size.n ELSE 64),
        size |-> Undefined,
        format |-> <<>>,
        source |-> "fallback-api",
        score |-> 1,
        isFallback |-> "true"]

\* faulty variant of PushedFavicons: the failure of fetchHtml is not caught
\* and ends analyzePage before the fallback API candidate is pushed
PushedFaviconsUncaught(url, size, cfg, pg) ==
    IF fetchHtml(pg).ok
    THEN extractFaviconFromLinkTags(pg.links, pg.baseUrl)
         \o StaticFallbacks(pg.baseUrl)
         \o extractFaviconFromManifest(pg.manifest, pg.baseUrl)
         \o (IF cfg.USE_FALLBACK_API THEN <<FallbackApiCandidate(url, size)>> ELSE <<>>)
    ELSE <<>>

\* the favicons array before it is sorted
PushedFavicons(url, size, cfg, pg) ==
    (IF fetchHtml(pg).ok
     THEN extractFaviconFromLinkTags(pg.links, pg.baseUrl)
          \o StaticFallbacks(pg.baseUrl)
          \o (IF ManifestEscapes(pg.manifest) THEN <<>>
              ELSE extractFaviconFromManifest(pg.manifest, pg.baseUrl))
     ELSE <<>>)
    \o (IF cfg.USE_FALLBACK_API THEN <<FallbackApiCandidate(url, size)>> ELSE <<>>)

\* the ogImages array before it is sorted
PushedOGImages(pg) ==
    IF fetchHtml(pg).ok /\ ~ManifestEscapes(pg.manifest)
    THEN extractOGFromTags(pg.metas, pg.baseUrl)
         \o extractOGFromTwitterTags(pg.twitter, pg.baseUrl)
         \o extractOGFromJsonLd(pg.jsonld, pg.baseUrl)
    ELSE <<>>

\* const targetUrl = url.startsWith('http') ? url : `https://${url}`
targetUrl(url) == IF StartsWith(url, S_http) THEN url ELSE S_httpsSlashes \o url

\* fetch(u) rejects at once when u is no absolute URL
FetchRejects(u) == ~HasScheme(u)

Request(target, agent) == [kind |-> "request", target |-> target, agent |-> agent]
Extract(extractor) == [kind |-> "extract", target |-> extractor, agent |-> ""]

\* the requests fetchHtml issues for the page, in order
PageRequests(pg) ==
    [i \in 1..Len(fetchHtml(pg).agents) |-> Request("page", fetchHtml(pg).agents[i])]

\* faulty variant of AnalysisTrace: the manifest is asked for whether the
\* markup fetch succeeds or not
AnalysisTraceManifestAlways(pg) ==
    PageRequests(pg)
    \o (IF fetchHtml(pg).ok
        THEN <<Extract("extractMetadata"), Extract("extractFaviconFromLinkTags")>>
        ELSE <<>>)
    \o <<Request("manifest", "USER_AGENT")>>
    \o (IF fetchHtml(pg).ok
        THEN <<Extract("extractOGFromTags"), Extract("extractOGFromTwitterTags"),
               Extract("extractOGFromJsonLd")>>
        ELSE <<>>)

\* the discovery requests and the extractor runs of one analyzePage, in the
\* order of its try block; a throw of fetchHtml skips to the catch
AnalysisTrace(pg) ==
    PageRequests(pg)
    \o (IF fetchHtml(pg).ok
        THEN <<Extract("extractMetadata"), Extract("extractFaviconFromLinkTags"),
               Request("manifest", "USER_AGENT")>>
             \o (IF ManifestEscapes(pg.manifest) THEN <<>>
                 ELSE <<Extract("extractOGFromTags"), Extract("extractOGFromTwitterTags"),
                        Extract("extractOGFromJsonLd")>>)
        ELSE <<>>)

analyzePage(url, size, cfg, pg) ==
    [favicons |-> SortByScore(WithOrd(PushedFavicons(url, size, cfg, pg))),
     ogImages |-> SortByScore(WithOrd(PushedOGImages(pg))),
     metadata |-> IF fetchHtml(pg).ok THEN extractMetadata(pg.head) ELSE NoMetadata]

NoPageData == [favicons |-> <<>>, ogImages |-> <<>>, none |-> TRUE]

-----------------------------------------------------------------------------
(* og-finder.ts: its own copy of the social-image discovery *)

\* faulty variant of calculateScore: no format preference
calculateScoreNoFormat(width, height, source, type) ==
    50
    + (IF source = "og:image" THEN 100
       ELSE IF source = "twitter:image" THEN 80
       ELSE IF source = "schema.org" THEN 60
       ELSE 0)
    + (IF Truthy(width) /\ Truthy(height) THEN AreaBonus(width.n * height.n)
       ELSE IF Truthy(width) THEN DimensionBonus(width.n)
       ELSE IF Truthy(height) THEN DimensionBonus(height.n)
       ELSE 0)

calculateScore(width, height, source, type) ==
    50
    + (IF source = "og:image" THEN 100
       ELSE IF source = "twitter:image" THEN 80
       ELSE IF source = "schema.org" THEN 60
       ELSE 0)
    + (IF Truthy(width) /\ Truthy(height)
       THEN LET area == width.n * height.n
            IN IF area >= 1200 * 630 THEN 90
               ELSE IF area >= 800 * 600 THEN 80
               ELSE IF area >= 600 * 400 THEN 70
               ELSE IF area >= 400 * 300 THEN 60
               ELSE IF area >= 300 * 200 THEN 50
               ELSE 0
       ELSE IF Truthy(width) \/ Truthy(height)
       THEN LET dimension == IF Truthy(width) THEN width.n ELSE height.n
            IN IF dimension >= 1200 THEN 70
               ELSE IF dimension >= 800 THEN 60
               ELSE IF dimension >= 600 THEN 50
               ELSE 0
       ELSE 0)
    + (IF Includes(type, S_png) THEN 20
       ELSE IF Includes(type, S_jpeg) \/ Includes(type, S_jpg) THEN 15
       ELSE IF Includes(type, S_webp) THEN 25
       ELSE 0)

\* resolveUrl of og-finder.ts
ogFinderResolveUrl(url, baseUrl) ==
    IF isDataUrl(url) THEN url
    ELSE IF StartsWith(url, S_http) THEN url
    ELSE IF StartsWith(url, <<"/", "/">>) THEN S_https \o url
    ELSE IF StartsWith(url, <<"/">>) THEN baseUrl \o url
    ELSE baseUrl \o <<"/">> \o url

\* the images collected from og:image, og:image:url and og:image:secure_url;
\* width, height and type go to ogImages[0], the last tag of each kind wins
extractFromOGTags(metas, baseUrl) ==
    LET urls == OgUrls(metas)
        width == IF LastContent(metas, "og:image:width") # <<>>
                 THEN ParseInt(LastContent(metas, "og:image:width")) ELSE Undefined
        height == IF LastContent(metas, "og:image:height") # <<>>
                  THEN ParseInt(LastContent(metas, "og:image:height")) ELSE Undefined
        type == LastContent(metas, "og:image:type")
    IN [i \in 1..Len(urls) |->
          IF i = 1
          THEN [url |-> ogFinderResolveUrl(urls[i], baseUrl),
                width |-> width,
                height |-> height,
                type |-> type,
                source |-> "og:image",
                score |-> calculateScore(width, height, "og:image", type)]
          ELSE [url |-> ogFinderResolveUrl(urls[i], baseUrl),
                width |-> Undefined,
                height |-> Undefined,
                type |-> <<>>,
                source |-> "og:image",
                score |-> calculateScore(Undefined, Undefined, "og:image", <<>>)]]

extractFromTwitterTags(twitter, baseUrl) ==
    IF twitter # <<>>
    THEN <<[url |-> ogFinderResolveUrl(twitter, baseUrl),
            width |-> Undefined,
            height |-> Undefined,
            type |-> <<>>,
            source |-> "twitter:image",
            score |-> calculateScore(Undefined, Undefined, "twitter:image", <<>>)]>>
    ELSE <<>>

RECURSIVE extractFromJsonLd(_, _)
extractFromJsonLd(blocks, baseUrl) ==
    IF blocks = <<>> THEN <<>>
    ELSE (IF Head(blocks).valid
          THEN LET images == Head(blocks).images
                   kept == SelectSeq(images, LAMBDA img : img.url # <<>>)
               IN [i \in 1..Len(kept) |->
                     [url |-> ogFinderResolveUrl(kept[i].url, baseUrl),
                      width |-> kept[i].width,
                      height |-> kept[i].height,
                      type |-> <<>>,
                      source |-> "schema.org",
                      score |-> calculateScore(kept[i].width, kept[i].height,
                                               "schema.org", <<>>)]]
          ELSE <<>>) \o extractFromJsonLd(Tail(blocks), baseUrl)

\* findOGImages(url, config) against page pg: a throw of fetchHtml leaves
\* the list empty
findOGImages(pg) ==
    SortByScore(WithOrd(
        IF fetchHtml(pg).ok
        THEN extractFromOGTags(pg.metas, pg.baseUrl)
             \o extractFromTwitterTags(pg.twitter, pg.baseUrl)
             \o extractFromJsonLd(pg.jsonld, pg.baseUrl)
        ELSE <<>>))

-----------------------------------------------------------------------------
(* og-finder.ts: the candidate resolver *)

Lists == {"fav", "og"}

Null == [isNull |-> TRUE, len |-> 0, source |-> "", url |-> <<>>,
         isFallback |-> "undefined", ord |-> 0, format |-> ""]

\* leading bytes of payloads: PNG, JPEG, RIFF (WebP), GIF, SVG text
PngBytes == <<137, 80, 78, 71>>
JpegBytes == <<255, 216, 255>>
RiffBytes == <<82, 73, 70, 70>>
GifBytes == <<71, 73, 70, 56>>
SvgBytes == <<60, 115, 118, 103, 32>>

\* buffer.toString('utf8', 0, 5).includes('<svg')
SvgSniff(buffer) ==
    Includes(SubSeq(buffer, 1, IF Len(buffer) < 5 THEN Len(buffer) ELSE 5),
             <<60, 115, 118, 103>>)

\* the format a hint names, "" when it names none
HintFormat(hintStr) ==
    IF Includes(hintStr, S_png) THEN "png"
    ELSE IF Includes(hintStr, S_jpeg) \/ Includes(hintStr, S_jpg) THEN "jpg"
    ELSE IF Includes(hintStr, S_webp) THEN "webp"
    ELSE IF Includes(hintStr, S_svg) THEN "svg"
    ELSE IF Includes(hintStr, S_gif) THEN "gif"
    ELSE ""

\* faulty variant of detectFormat: the hint is asked before the magic numbers
detectFormatHintFirst(buffer, hint) ==
    IF HintFormat(hint) # "" THEN HintFormat(hint)
    ELSE IF StartsWith(buffer, <<137, 80>>) THEN "png"
    ELSE IF StartsWith(buffer, <<255, 216>>) THEN "jpg"
    ELSE IF StartsWith(buffer, <<82, 73>>) THEN "webp"
    ELSE IF StartsWith(buffer, <<71, 73, 70>>) THEN "gif"
    ELSE IF SvgSniff(buffer) THEN "svg"
    ELSE "png"

\* buffer: the leading bytes of the payload; hint: '' when there is none
detectFormat(buffer, hint) ==
    IF StartsWith(buffer, <<137, 80>>) THEN "png"
    ELSE IF StartsWith(buffer, <<255, 216>>) THEN "jpg"
    ELSE IF StartsWith(buffer, <<82, 73>>) THEN "webp"
    ELSE IF StartsWith(buffer, <<71, 73, 70>>) THEN "gif"
    ELSE IF SvgSniff(buffer) THEN "svg"
    ELSE IF HintFormat(hint) # "" THEN HintFormat(hint)
    ELSE "png"

\* parseDataUrl(url).mimeType: the MIME a data URL declares, "" if none
DataUrlMime(url) == TakeUntil(SubSeq(url, Len(S_data) + 1, Len(url)), {";", ","})

\* image.type of an OG candidate, image.format of a favicon candidate
DeclaredType(image) ==
    IF "type" \in DOMAIN image THEN image.type
    ELSE IF "format" \in DOMAIN image THEN image.format
    ELSE <<>>

\* mimeType || image.type
HintFor(image) ==
    IF isDataUrl(image.url) /\ DataUrlMime(image.url) # <<>>
    THEN DataUrlMime(image.url)
    ELSE DeclaredType(image)

\* what the world answers when candidate i is tried:
\*   kind  "throws": fetch, arrayBuffer, parseDataUrl or validateImage throws
\*         "notOk": a non-2xx response; parseDataUrl returns null
\*         "bytes": a payload of len bytes
\*   valid the verdict of validateImage on the payload
\*   head  the leading bytes of the payload, one of page.payloads
Outcomes ==
    [kind : {"throws", "notOk"}, len : {0}, valid : {FALSE}]
    \cup [kind : {"bytes"}, len : 0..(MAX_IMAGE_SIZE + 1), valid : BOOLEAN]

\* the answer out with leading bytes head, if it has any
WithHead(out, head) ==
    out @@ [head |-> IF out.kind = "bytes" /\ out.len > 0 THEN head ELSE <<>>]

\* the answer in the words of the resolver's contract
ClassOf(out) ==
    IF out.kind # "bytes" THEN out.kind
    ELSE IF out.len = 0 THEN "empty"
    ELSE IF out.len > MAX_IMAGE_SIZE THEN "oversized"
    ELSE IF ~out.valid THEN "invalid"
    ELSE "good"

HistoryOff ==
    [on |-> FALSE, seen |-> [l \in {"fav", "og"} |-> <<>>], markup |-> NoFetch,
     trace |-> <<>>, target |-> <<>>, payload |-> <<>>]
HistoryOn ==
    [on |-> TRUE, seen |-> [l \in {"fav", "og"} |-> <<>>], markup |-> NoFetch,
     trace |-> <<>>, target |-> <<>>, payload |-> <<>>]

\* faulty variant of FetchesOf: every candidate is fetched, data URLs included
FetchesOfAlways(image) == 1

\* faulty variant of FetchesOf: a candidate is requested a second time
FetchesOfTwice(image) == IF isDataUrl(image.url) THEN 0 ELSE 2

\* number of network fetches one loop iteration issues for image
FetchesOf(image) == IF isDataUrl(image.url) THEN 0 ELSE 1

\* faulty variant of TryImage: the payload is not checked against MAX_IMAGE_SIZE
TryImageNoCeiling(image, out) ==
    IF out.kind = "bytes" /\ out.len > 0 /\ out.valid
    THEN [isNull |-> FALSE, len |-> out.len, source |-> image.source,
          url |-> image.url, isFallback |-> image.isFallback, ord |-> image.ord,
          format |-> detectFormat(out.head, HintFor(image))]
    ELSE Null

\* the value one loop iteration returns for image, Null when it goes on
TryImage(image, out) ==
    IF /\ out.kind = "bytes"
       /\ out.len > 0
       /\ out.len <= MAX_IMAGE_SIZE
       /\ out.valid
    THEN [isNull |-> FALSE, len |-> out.len, source |-> image.source,
          url |-> image.url, isFallback |-> image.isFallback, ord |-> image.ord,
          format |-> detectFormat(out.head, HintFor(image))]
    ELSE Null

IdleScanner ==
    [state |-> "idle", images |-> <<>>, idx |-> 0, status |-> <<>>,
     fetchCalls |-> <<>>, result |-> Null]

\* the resolver is called on images: the loop is about to test its first
\* element, or has already returned null for an empty list
StartedScanner(images) ==
    [state |-> IF images = <<>> THEN "done" ELSE "running",
     images |-> images,
     idx |-> 0,
     status |-> [i \in 1..Len(images) |-> "untried"],
     fetchCalls |-> [i \in 1..Len(images) |-> 0],
     result |-> Null]

\* faulty variant of CanBegin: the next candidate is taken while the one
\* before it is still awaited
CanBeginSpeculative(sc) ==
    sc.state \in {"running", "awaiting"} /\ sc.idx < Len(sc.images)

\* the loop takes its next candidate only between two iterations: the awaits
\* of an iteration are inside the loop body
CanBegin(sc) == sc.state = "running"

\* scanner sc when the loop enters its next iteration: a candidate that is not
\* a data URL is requested from the network
BeginOf(sc) ==
    LET i == sc.idx + 1
    IN [sc EXCEPT
          !.idx = i,
          !.fetchCalls[i] = @ + FetchesOf(sc.images[i]),
          !.status[i] = "trying",
          !.state = "awaiting"]

\* faulty variant of IterationOf: an exception is not caught inside the loop and
\* ends the scan
IterationOfAbortsOnThrow(sc, out) ==
    LET i == sc.idx
        got == TryImage(sc.images[i], out)
    IN [sc EXCEPT
          !.status[i] = IF got.isNull THEN "failed" ELSE "returned",
          !.result = got,
          !.state = IF got.isNull /\ i < Len(sc.images) /\ out.kind # "throws"
                    THEN "running" ELSE "done"]

\* scanner sc at the end of the iteration of  for (const image of images)
\* under way, in which the world answers out
IterationOf(sc, out) ==
    LET i == sc.idx
        got == TryImage(sc.images[i], out)
    IN [sc EXCEPT
          !.status[i] = IF got.isNull THEN "failed" ELSE "returned",
          !.result = got,
          !.state = IF got.isNull /\ i < Len(sc.images) THEN "running" ELSE "done"]

\* the loop of fetchBestOGImage on list l enters its next iteration
BeginIteration(l) ==
    /\ CanBegin(scan[l])
    /\ scan' = [scan EXCEPT ![l] = BeginOf(scan[l])]
    /\ UNCHANGED <<config, page, input, pageData, req, cachedFallback, loadCount, history>>

\* the iteration under way on list l ends: it returns the candidate, or goes
\* on to the next one, or leaves the loop and returns null
EndIteration(l) ==
    /\ scan[l].state = "awaiting"
    /\ \E out \in Outcomes, head \in page.payloads :
          /\ scan' = [scan EXCEPT ![l] = IterationOf(scan[l], WithHead(out, head))]
          /\ history' = IF history.on
                        THEN [history EXCEPT !.seen[l] = Append(@, ClassOf(out)),
                                             !.payload = WithHead(out, head).head]
                        ELSE history
    /\ UNCHANGED <<config, page, input, pageData, req, cachedFallback, loadCount>>

\* one step of fetchBestOGImage on list l
fetchBestOGImage(l) == BeginIteration(l) \/ EndIteration(l)

\* lib/favicon-finder.ts: the same resolver, for the favicon list
fetchBestFavicon == fetchBestOGImage("fav")

-----------------------------------------------------------------------------
(* Inputs: the pages, configurations and candidate lists the model ranges over *)

SeqUpTo(S, n) == UNION {[1..k -> S] : k \in 0..n}

U_aio == <<"a",".","i","o">>
U_base == <<"h","t","t","p","s",":","/","/","a",".","i","o">>
U_iPng == <<"/","i",".","p","n","g">>
U_jPng == <<"/","j",".","p","n","g">>
U_m == <<"/","m">>
U_dataSvg == <<"d","a","t","a",":","i","m","a","g","e","/","s","v","g","+","x","m","l",",","A">>
U_dataPng == <<"d","a","t","a",":","i","m","a","g","e","/","p","n","g",",","B">>
U_css == <<"/","s",".","c","s","s">>
U_cdnIco == <<"/","/","c",".","i","o","/","f",".","i","c","o">>
U_aPng == <<"/","a",".","p","n","g">>
U_oPng == <<"/","o",".","p","n","g">>
U_sJpg == <<"h","t","t","p","s",":","/","/","a",".","i","o","/","s",".","j","p","g">>
U_tPng == <<"/","t",".","p","n","g">>
U_lWebp == <<"h","t","t","p","s",":","/","/","a",".","i","o","/","l",".","w","e","b","p">>
Z_32 == <<"3","2","x","3","2">>
Z_512 == <<"5","1","2","x","5","1","2">>
Z_192 == <<"1","9","2","x","1","9","2">>
Z_any == <<"a","n","y">>
T_imagePng == <<"i","m","a","g","e","/","p","n","g">>
T_imageJpeg == <<"i","m","a","g","e","/","j","p","e","g">>
T_imageIcon == <<"i","m","a","g","e","/","x","-","i","c","o","n">>
R_stylesheet == <<"s","t","y","l","e","s","h","e","e","t">>
N_1200 == <<"1","2","0","0">>
N_630 == <<"6","3","0">>
N_600 == <<"6","0","0">>

Link(rel, href, sizes, type) == [rel |-> rel, href |-> href, sizes |-> sizes, type |-> type]

\* <link> elements; two of them score alike, one scores as low as a manifest
\* icon, one is no icon, one has no href
LinkElements ==
    { Link(S_icon, U_iPng, Z_32, <<>>),
      Link(S_icon, U_jPng, Z_32, T_imagePng),
      Link(S_maskIcon, U_m, <<>>, <<>>),
      Link(S_appleTouchIcon, U_dataSvg, <<>>, <<>>),
      Link(R_stylesheet, U_css, <<>>, <<>>),
      Link(S_icon, <<>>, Z_512, T_imagePng),
      Link(S_icon, U_cdnIco, Z_512, <<>>) }

\* every combination of the attributes the icon score reads
ScoredLinkElements ==
    { Link(rel, href, sizes, type) :
        rel \in {S_icon, S_appleTouchIcon, S_maskIcon},
        href \in {U_m, U_dataSvg},
        sizes \in {<<>>, Z_any, Z_32, Z_192, Z_512},
        type \in {<<>>, T_imagePng, T_imageIcon, S_webp, S_gif, T_imageJpeg} }

ManifestIcons ==
    { [src |-> U_aPng, sizes |-> Z_192, type |-> T_imagePng],
      [src |-> <<>>, sizes |-> Z_512, type |-> <<>>] }

ManifestResponses ==
    { [kind |-> k, icons |-> <<>>] :
        k \in {"error", "non2xx", "badjson", "noicons", "nonarray"} }
    \cup { [kind |-> "icons", icons |-> s] : s \in SeqUpTo(ManifestIcons, MaxIcons) }

Meta(property, content) == [property |-> property, content |-> content]

MetaElements ==
    { Meta("og:image", U_oPng),
      Meta("og:image:secure_url", U_dataPng),
      Meta("og:image", <<>>),
      Meta("og:image:width", N_600),
      Meta("og:image:height", N_630),
      Meta("og:image:type", T_imagePng) }

TwitterContents == {<<>>, U_tPng}

JsonLdBlocks ==
    << [valid |-> FALSE, images |-> <<>>],
       [valid |-> TRUE, images |-> <<[url |-> U_lWebp, width |-> Num(1200), height |-> Num(630)]>>],
       [valid |-> TRUE, images |-> <<[url |-> U_sJpg, width |-> Undefined, height |-> Undefined],
                                     [url |-> <<>>, width |-> Num(600), height |-> Undefined]>>] >>

JsonLdPages ==
    { <<>>, <<JsonLdBlocks[2]>>, <<JsonLdBlocks[1], JsonLdBlocks[2]>>, <<JsonLdBlocks[3]>> }

AttemptOutcomes == {"ok", "non2xx", "error", "bodyerror"}

\* a document without <title> and without metadata <meta> elements
NoHead ==
    [ogTitle |-> Undefined, twitterTitle |-> Undefined, titleText |-> <<>>,
     ogDescription |-> Undefined, twitterDescription |-> Undefined,
     description |-> Undefined, ogSiteName |-> Undefined]

\* every combination of absent, empty and non-empty sources of the metadata
Heads ==
    [ogTitle : {Undefined, Str(<<>>), Str(<<"O">>)},
     twitterTitle : {Undefined, Str(<<>>), Str(<<"W">>)},
     titleText : {<<>>, <<"T">>},
     ogDescription : {Undefined, Str(<<>>), Str(<<"o">>)},
     twitterDescription : {Undefined, Str(<<>>), Str(<<"w">>)},
     description : {Undefined, Str(<<>>), Str(<<"d">>)},
     ogSiteName : {Undefined, Str(<<>>), Str(<<"S">>)}]

MkPage(a1, a2, links, manifest, metas, twitter, jsonld) ==
    [attempt1 |-> a1, attempt2 |-> a2, baseUrl |-> U_base, links |-> links,
     manifest |-> manifest, metas |-> metas, twitter |-> twitter, jsonld |-> jsonld,
     head |-> NoHead, payloads |-> {PngBytes}]

NoManifest == [kind |-> "non2xx", icons |-> <<>>]

\* The icon side and the social-image side of a page are extracted
\* independently: the pages vary one side at a time.
OneIconManifest == [kind |-> "icons", icons |-> <<[src |-> U_aPng, sizes |-> Z_192, type |-> T_imagePng]>>]

FavPages ==
    { MkPage("ok", "ok", links, manifest, <<>>, <<>>, <<>>) :
        links \in SeqUpTo(LinkElements, MaxLinks) \cup { <<el>> : el \in ScoredLinkElements },
        manifest \in {NoManifest, OneIconManifest} }
    \cup { MkPage("ok", "ok", <<Link(S_maskIcon, U_m, <<>>, <<>>)>>, manifest,
                   <<Meta("og:image", U_oPng)>>, U_tPng, <<>>) :
             manifest \in ManifestResponses }

OgPages ==
    { MkPage("ok", "ok", <<>>, NoManifest, metas, twitter, jsonld) :
        metas \in SeqUpTo(MetaElements, MaxMetas),
        twitter \in TwitterContents,
        jsonld \in JsonLdPages }

FetchPages ==
    { MkPage(a1, a2, <<Link(S_icon, U_iPng, Z_32, <<>>)>>,
             OneIconManifest,
             <<Meta("og:image", U_oPng)>>, U_tPng, <<JsonLdBlocks[2]>>) :
        a1 \in AttemptOutcomes, a2 \in AttemptOutcomes }

\* the sizes at and next to the thresholds of the icon score
ThresholdSizes == {16, 31, 32, 63, 64, 127, 128, 191, 192, 255, 256, 511, 512, 1024}

SizeAttr(n) == NumToStr(n) \o <<"x">> \o NumToStr(n)

\* pages with two <link> elements that differ in nothing but sizes
SizePages ==
    { MkPage("ok", "ok",
             <<Link(rel, U_m, SizeAttr(a), type), Link(rel, U_m, SizeAttr(b), type)>>,
             NoManifest, <<>>, <<>>, <<>>) :
        a \in ThresholdSizes, b \in ThresholdSizes,
        rel \in {S_icon, S_appleTouchIcon}, type \in {<<>>, T_imagePng} }

U_rPng == <<"r",".","p","n","g">>
U_httpxPng == <<"h","t","t","p","x",".","p","n","g">>
U_ftp == <<"f","t","p",":","/","/","c",".","i","o","/","f">>
U_httpPlain == <<"h","t","t","p",":","/","/","c",".","i","o","/","f">>

\* the forms of reference the URL resolver tells apart
References ==
    {U_dataPng, U_sJpg, U_httpPlain, U_ftp, U_cdnIco, U_iPng, U_rPng, U_httpxPng}

\* pages with one <link rel="icon"> of every form of reference
ReferencePages ==
    { MkPage("ok", "ok", <<Link(S_icon, href, <<>>, <<>>)>>, NoManifest, <<>>, <<>>, <<>>) :
        href \in References }

\* manifests of two icons alike but for their sizes
ManifestSizePages ==
    { MkPage("ok", "ok", <<>>,
             [kind |-> "icons",
              icons |-> <<[src |-> U_aPng, sizes |-> a, type |-> T_imagePng],
                          [src |-> U_aPng, sizes |-> b, type |-> T_imagePng]>>],
             <<>>, <<>>, <<>>) :
        a \in {Z_32, Z_192, Z_512}, b \in {Z_32, Z_192, Z_512} }

\* og:image with every combination of width, height and type, a
\* twitter:image and a JSON-LD image with or without dimensions
OgWidths == {<<>>, <<"a">>, NumToStr(300), NumToStr(600), NumToStr(800), NumToStr(1200)}
OgHeights == {<<>>, NumToStr(200), NumToStr(400), NumToStr(630)}
OgTypes == {<<>>, T_imagePng, T_imageJpeg, S_webp}
JsonLdDimensions ==
    { <<Undefined, Undefined>>, <<Num(600), Undefined>>, <<Num(1200), Undefined>>,
      <<Num(300), Num(200)>>, <<Num(1200), Num(630)>> }

SocialPages ==
    { MkPage("ok", "ok", <<>>, NoManifest,
             <<Meta("og:image", U_oPng), Meta("og:image:width", w),
               Meta("og:image:height", h), Meta("og:image:type", ty)>>,
             U_tPng,
             <<[valid |-> TRUE, images |-> <<[url |-> U_lWebp, width |-> d[1], height |-> d[2]]>>]>>) :
        w \in OgWidths, h \in OgHeights, ty \in OgTypes, d \in JsonLdDimensions }

MetaPages ==
    { [MkPage("ok", "ok", <<>>, NoManifest, <<>>, <<>>, <<>>) EXCEPT !.head = h] : h \in Heads }
    \cup { [MkPage("error", "non2xx", <<>>, NoManifest, <<>>, <<>>, <<>>)
              EXCEPT !.head = [NoHead EXCEPT !.titleText = <<"T">>]] }

Pages ==
    FavPages \cup OgPages \cup FetchPages \cup MetaPages \cup SizePages \cup SocialPages
    \cup ManifestSizePages \cup ReferencePages

NoPage == MkPage("error", "error", <<>>, NoManifest, <<>>, <<>>, <<>>)

Configs == [USE_FALLBACK_API : BOOLEAN]

Inputs == [url : {U_aio}, size : {Undefined, Num(32)}]

NoInput == [url |-> <<>>, size |-> Undefined]

U_httpaio == <<"h","t","t","p","a",".","i","o">>
U_ftpaio == <<"f","t","p",":","/","/","a",".","i","o">>

\* inputs with and without a scheme
UrlInputs ==
    [url : {U_aio, U_base, S_httpSlashes \o U_aio, U_httpaio, U_ftpaio},
     size : {Undefined}]

\* the answers of the world to the fetch of the input url: none but the
\* rejection of both attempts for a target that is no absolute URL
UrlPages(url) ==
    IF FetchRejects(targetUrl(url)) THEN {NoPage}
    ELSE {NoPage, MkPage("ok", "ok", <<Link(S_icon, U_iPng, <<>>, <<>>)>>,
                         NoManifest, <<>>, <<>>, <<>>)}

\* candidates of the lists handed directly to the resolver
Candidates ==
    { [url |-> U_dataPng, source |-> "og:image", score |-> 150, isFallback |-> "false"],
      [url |-> U_sJpg, source |-> "twitter:image", score |-> 130, isFallback |-> "false"],
      [url |-> U_base \o U_oPng, source |-> "schema.org", score |-> 110, isFallback |-> "false"] }

ImageLists == { WithOrd(s) : s \in SeqUpTo(Candidates, MaxImages) }

\* the leading bytes the payloads of SpecFormat begin with: the magic numbers,
\* near misses of them, and bytes that are none
PayloadHeads ==
    { PngBytes, JpegBytes, RiffBytes, GifBytes, SvgBytes,
      <<137, 0>>, <<137>>, <<71, 73, 0>>, <<32, 60, 115, 118, 103>>,
      <<32, 32, 60, 115, 118, 103>>, <<0, 0, 0>> }

T_imageSvg == <<"i","m","a","g","e","/","s","v","g","+","x","m","l">>
T_imageGif == <<"i","m","a","g","e","/","g","i","f">>
T_textHtml == <<"t","e","x","t","/","h","t","m","l">>
U_dataJpeg == <<"d","a","t","a",":","i","m","a","g","e","/","j","p","e","g",",","B">>
U_dataPlain == <<"d","a","t","a",":",",","B">>

\* candidates with every kind of hint: the MIME of a data URL, a declared
\* type, none
FormatCandidates ==
    { [url |-> u, type |-> <<>>, source |-> "og:image", score |-> 150, isFallback |-> "false"] :
        u \in {U_dataPng, U_dataJpeg, U_dataPlain} }
    \cup { [url |-> U_sJpg, type |-> ty, source |-> "og:image", score |-> 150,
            isFallback |-> "false"] :
             ty \in {<<>>, T_imagePng, T_imageJpeg, S_jpg, S_webp, T_imageSvg, T_imageGif,
                     T_textHtml} }

FormatLists == { WithOrd(s) : s \in SeqUpTo(FormatCandidates, 2) }

-----------------------------------------------------------------------------
(* index.ts: the request handlers *)

Requests == 1..MaxRequests

\* the slot of the request that runs the analyze-extract-resolve pipeline
PipelineSlot == CHOOSE r \in Requests : \A q \in Requests : r <= q

NoResult == [winner |-> "none", isNull |-> TRUE, favicon |-> Null, ogImage |-> Null]

NoResponse ==
    [status |-> 0, error |-> "", kind |-> "none", source |-> "absent",
     isFallback |-> "absent", ogSource |-> "absent", ogIsFallback |-> "absent",
     via |-> "none"]

\* tier: the fallback tier whose image handleFallback holds ("none" before)
\* tried: the fallback tiers handleFallback has asked for an image
IdleRequest ==
    [pc |-> "idle", endpoint |-> "none", skipFallback |-> FALSE,
     defaultImage |-> FALSE, response |-> "image", size |-> Undefined,
     pipeline |-> "none", result |-> NoResult, tier |-> "none", tried |-> {},
     cachedVersion |-> 0, resp |-> NoResponse]

NotLoaded == [loaded |-> FALSE, version |-> 0]

\* the pages the request handlers are run against
ReqPages ==
    { MkPage("ok", "ok", <<Link(S_icon, U_iPng, Z_32, <<>>)>>, NoManifest,
             <<Meta("og:image", U_oPng)>>, U_tPng, <<>>),
      MkPage("ok", "ok", <<Link(S_appleTouchIcon, U_dataSvg, <<>>, <<>>)>>,
             OneIconManifest, <<>>, <<>>, <<>>),
      [MkPage("non2xx", "error", <<Link(S_icon, U_iPng, Z_32, <<>>)>>, NoManifest,
              <<Meta("og:image", U_oPng)>>, <<>>, <<>>)
         EXCEPT !.head = [NoHead EXCEPT !.titleText = <<"T">>, !.ogSiteName = Str(<<"S">>)]] }

Respond(r, rec) == req' = [req EXCEPT ![r].pc = "done", ![r].resp = rec]

ErrorResponse(status, error, via) ==
    [NoResponse EXCEPT !.status = status, !.error = error, !.kind = "json", !.via = via]

\* the 200 answer of an endpoint for a resolved asset (index.ts 386-458)
AssetResponse(q) ==
    LET primary == IF q.endpoint = "og" THEN q.result.ogImage ELSE q.result.favicon
    IN IF q.response = "json"
       THEN [status |-> 200, error |-> "", kind |-> "json",
             source |-> primary.source,
             isFallback |-> primary.isFallback,
             ogSource |-> IF q.endpoint = "favicon" /\ ~q.result.ogImage.isNull
                          THEN q.result.ogImage.source ELSE "absent",
             ogIsFallback |-> IF q.endpoint = "favicon" /\ ~q.result.ogImage.isNull
                              THEN q.result.ogImage.isFallback ELSE "absent",
             via |-> "pipeline"]
       ELSE [NoResponse EXCEPT !.status = 200, !.kind = "image", !.via = "pipeline"]

\* the 200 answer of handleFallback (index.ts 514-548)
FallbackResponse(q) ==
    IF q.response = "json"
    THEN [NoResponse EXCEPT !.status = 200, !.kind = "json", !.source = "default",
                            !.isFallback = "true", !.via = "handleFallback"]
    ELSE [NoResponse EXCEPT !.status = 200, !.kind = "image", !.via = "handleFallback"]

\* GET /:url and GET /og/:url with valid parameters: the handler starts the
\* pipeline and the deadline timer and awaits their race
Receive(r) ==
    /\ req[r].pc = "idle"
    /\ \E ep \in {"favicon", "og"}, skip \in BOOLEAN, dflt \in BOOLEAN,
          rsp \in {"json", "image"}, in \in Inputs, pg \in ReqPages :
          /\ req' = [req EXCEPT ![r] =
                        [IdleRequest EXCEPT !.pc = "race", !.endpoint = ep,
                                            !.skipFallback = skip, !.defaultImage = dflt,
                                            !.response = rsp, !.size = in.size,
                                            !.pipeline = "analyzePage"]]
          /\ input' = in
          /\ page' = pg
    /\ pageData' = NoPageData
    /\ scan' = [l \in Lists |-> IdleScanner]
    /\ UNCHANGED <<config, cachedFallback, loadCount, history>>

\* analyzePage returns to the pipeline, which calls the resolvers
\* (index.ts 150-156 and 318-328); only the favicon endpoint passes size
AnalyzePageReturns(r) ==
    /\ req[r].pipeline = "analyzePage"
    /\ LET data == analyzePage(input.url,
                               IF req[r].endpoint = "favicon" THEN input.size ELSE Undefined,
                               config, page)
       IN /\ pageData' = data
          /\ scan' = [fav |-> IF req[r].endpoint = "favicon"
                              THEN StartedScanner(data.favicons) ELSE IdleScanner,
                      og |-> StartedScanner(data.ogImages)]
    /\ req' = [req EXCEPT ![r].pipeline = "resolving"]
    /\ history' = [history EXCEPT !.markup = fetchHtml(page),
                                    !.trace = AnalysisTrace(page),
                                    !.target = targetUrl(input.url)]
    /\ UNCHANGED <<config, page, input, cachedFallback, loadCount>>

\* faulty variant of PipelineValue: without a social image there is no favicon
PipelineValueNeedsOg(q) ==
    IF q.endpoint = "favicon"
    THEN [winner |-> "pipeline", isNull |-> FALSE,
          favicon |-> IF scan["og"].result.isNull THEN Null ELSE scan["fav"].result,
          ogImage |-> scan["og"].result]
    ELSE [winner |-> "pipeline", isNull |-> scan["og"].result.isNull,
          favicon |-> Null, ogImage |-> scan["og"].result]

\* the value the pipeline promise resolves with
PipelineValue(q) ==
    IF q.endpoint = "favicon"
    THEN [winner |-> "pipeline", isNull |-> FALSE,
          favicon |-> scan["fav"].result, ogImage |-> scan["og"].result]
    ELSE [winner |-> "pipeline", isNull |-> scan["og"].result.isNull,
          favicon |-> Null, ogImage |-> scan["og"].result]

\* faulty variant of PipelineSettles: a pipeline that resolves after the timer
\* still hands its value to the handler
PipelineSettlesLate(r) ==
    /\ req[r].pipeline = "resolving"
    /\ \A l \in Lists : scan[l].state \in {"idle", "done"}
    /\ req' = [req EXCEPT
                 ![r].pipeline = "settled",
                 ![r].result = PipelineValue(req[r]),
                 ![r].pc = IF @ = "race" THEN "raced" ELSE @]
    /\ UNCHANGED <<config, page, input, pageData, scan, cachedFallback, loadCount, history>>

\* the pipeline promise resolves; it wins the race if the timer has not
PipelineSettles(r) ==
    /\ req[r].pipeline = "resolving"
    /\ \A l \in Lists : scan[l].state \in {"idle", "done"}
    /\ req' = [req EXCEPT
                 ![r].pipeline = "settled",
                 ![r].result = IF req[r].pc = "race" THEN PipelineValue(req[r]) ELSE @,
                 ![r].pc = IF @ = "race" THEN "raced" ELSE @]
    /\ UNCHANGED <<config, page, input, pageData, scan, cachedFallback, loadCount, history>>

\* faulty variant of TimerFires: the timer rejects, and the handler's catch answers 500
TimerFiresRejects(r) ==
    /\ req[r].pc = "race"
    /\ req' = [req EXCEPT ![r].pc = "done",
                          ![r].result = [NoResult EXCEPT !.winner = "timer"],
                          ![r].resp = ErrorResponse(500, "Internal server error", "pipeline")]
    /\ UNCHANGED <<config, page, input, pageData, scan, cachedFallback, loadCount, history>>

\* the REQUEST_TIMEOUT timer resolves with null before the pipeline has
\* (fired later, it changes nothing)
TimerFires(r) ==
    /\ req[r].pc = "race"
    /\ req' = [req EXCEPT ![r].pc = "raced",
                          ![r].result = [NoResult EXCEPT !.winner = "timer"]]
    /\ UNCHANGED <<config, page, input, pageData, scan, cachedFallback, loadCount, history>>

\* !result || !result.favicon || !result.favicon.data  (and .image for /og/)
NoAsset(q) ==
    \/ q.result.isNull
    \/ IF q.endpoint = "og" THEN q.result.ogImage.isNull ELSE q.result.favicon.isNull

SkippedResponse(q) ==
    ErrorResponse(404,
                  IF q.response # "json" THEN ""
                  ELSE IF q.endpoint = "og" THEN "No OG image found (fallback skipped)"
                  ELSE "No favicon found (fallback skipped)",
                  "skipFallback")

\* the handler after await Promise.race (index.ts 165-200 and 339-364)
HandleResult(r) ==
    /\ req[r].pc = "raced"
    /\ LET q == req[r]
           primary == IF q.endpoint = "og" THEN q.result.ogImage ELSE q.result.favicon
       IN IF NoAsset(q)
          THEN IF q.endpoint = "og" /\ q.skipFallback
               THEN Respond(r, SkippedResponse(q))
               ELSE req' = [req EXCEPT ![r].pc = "handleFallback"]
          ELSE IF q.skipFallback /\ primary.isFallback = "true"
               THEN Respond(r, SkippedResponse(q))
               ELSE req' = [req EXCEPT ![r].pc = "processImage"]
    /\ UNCHANGED <<config, page, input, pageData, scan, cachedFallback, loadCount, history>>

\* image-processor.processImage returns or throws for the resolved asset
processImageReturns(r) ==
    /\ req[r].pc = "processImage"
    /\ \E ok \in BOOLEAN :
          Respond(r, IF ok THEN AssetResponse(req[r])
                     ELSE ErrorResponse(500, "Internal server error", "pipeline"))
    /\ UNCHANGED <<config, page, input, pageData, scan, cachedFallback, loadCount, history>>

\* GET / with query parameters: the handler calls handleFallback at once
RootReceive(r) ==
    /\ req[r].pc = "idle"
    /\ \E dflt \in BOOLEAN, rsp \in {"json", "image"}, in \in Inputs :
          req' = [req EXCEPT ![r] =
                     [IdleRequest EXCEPT !.pc = "handleFallback", !.endpoint = "root",
                                         !.defaultImage = dflt, !.response = rsp,
                                         !.size = in.size]]
    /\ UNCHANGED <<config, page, input, pageData, scan, cachedFallback, loadCount, history>>

\* faulty variant of getCachedFallback: the default image is loaded on every call
getCachedFallbackReloads ==
    [cache |-> [loaded |-> TRUE, version |-> loadCount + 1], loads |-> loadCount + 1]

\* lib/fallback-image.ts getCachedFallback: the default image, loaded on the
\* first call and kept; synchronous
getCachedFallback ==
    IF cachedFallback.loaded
    THEN [cache |-> cachedFallback, loads |-> loadCount]
    ELSE [cache |-> [loaded |-> TRUE, version |-> loadCount + 1], loads |-> loadCount + 1]

\* faulty variant of handleFallback: the caller's default image is ignored
handleFallbackIgnoresDefault(r) ==
    /\ req[r].pc = "handleFallback"
    /\ loadCount < MaxLoads
    /\ LET got == getCachedFallback
           q == [req[r] EXCEPT !.tier = "cached", !.tried = @ \cup {"cached"},
                               !.cachedVersion = got.cache.version]
       IN /\ cachedFallback' = got.cache
          /\ loadCount' = got.loads
          /\ req' = [req EXCEPT ![r] =
                        IF Truthy(q.size)
                        THEN [q EXCEPT !.pc = "processFallback"]
                        ELSE [q EXCEPT !.pc = "done", !.resp = FallbackResponse(q)]]
    /\ UNCHANGED <<config, page, input, pageData, scan, history>>

\* handleFallback up to its first await (index.ts 480-512)
handleFallback(r) ==
    /\ req[r].pc = "handleFallback"
    /\ loadCount < MaxLoads
    /\ IF req[r].defaultImage
       THEN /\ req' = [req EXCEPT ![r].pc = "fetchCustomDefault",
                                  ![r].tried = @ \cup {"custom"}]
            /\ UNCHANGED <<cachedFallback, loadCount>>
       ELSE LET got == getCachedFallback
                q == [req[r] EXCEPT !.tier = "cached", !.tried = @ \cup {"cached"},
                                    !.cachedVersion = got.cache.version]
            IN /\ cachedFallback' = got.cache
               /\ loadCount' = got.loads
               /\ req' = [req EXCEPT ![r] =
                             IF Truthy(q.size)
                             THEN [q EXCEPT !.pc = "processFallback"]
                             ELSE [q EXCEPT !.pc = "done", !.resp = FallbackResponse(q)]]
    /\ UNCHANGED <<config, page, input, pageData, scan, history>>

\* faulty variant of fetchCustomDefaultReturns: when the caller's default image
\* fails, the cached default is used in its place
fetchCustomDefaultReturnsOrCached(r) ==
    /\ req[r].pc = "fetchCustomDefault"
    /\ \E ok \in BOOLEAN :
          IF ok
          THEN LET q == [req[r] EXCEPT !.tier = "custom"]
               IN /\ req' = [req EXCEPT ![r] =
                                IF Truthy(q.size)
                                THEN [q EXCEPT !.pc = "processFallback"]
                                ELSE [q EXCEPT !.pc = "done", !.resp = FallbackResponse(q)]]
                  /\ UNCHANGED <<cachedFallback, loadCount>>
          ELSE LET got == getCachedFallback
                   q == [req[r] EXCEPT !.tier = "cached", !.tried = @ \cup {"cached"},
                                       !.cachedVersion = got.cache.version]
               IN /\ cachedFallback' = got.cache
                  /\ loadCount' = got.loads
                  /\ req' = [req EXCEPT ![r] =
                                IF Truthy(q.size)
                                THEN [q EXCEPT !.pc = "processFallback"]
                                ELSE [q EXCEPT !.pc = "done", !.resp = FallbackResponse(q)]]
    /\ UNCHANGED <<config, page, input, pageData, scan, history>>

\* lib/fallback-image.ts fetchCustomDefault returns the caller's default
\* image, or throws when it cannot be fetched or is no valid image
fetchCustomDefaultReturns(r) ==
    /\ req[r].pc = "fetchCustomDefault"
    /\ \E ok \in BOOLEAN :
          IF ok
          THEN LET q == [req[r] EXCEPT !.tier = "custom"]
               IN req' = [req EXCEPT ![r] =
                             IF Truthy(q.size)
                             THEN [q EXCEPT !.pc = "processFallback"]
                             ELSE [q EXCEPT !.pc = "done", !.resp = FallbackResponse(q)]]
          ELSE Respond(r, ErrorResponse(500, "Failed to fetch default image", "handleFallback"))
    /\ UNCHANGED <<config, page, input, pageData, scan, cachedFallback, loadCount, history>>

\* processImage returns or throws inside handleFallback (index.ts 506-512)
processFallbackReturns(r) ==
    /\ req[r].pc = "processFallback"
    /\ \E ok \in BOOLEAN :
          Respond(r, IF ok THEN FallbackResponse(req[r])
                     ELSE ErrorResponse(500, "Failed to fetch default image", "handleFallback"))
    /\ UNCHANGED <<config, page, input, pageData, scan, cachedFallback, loadCount, history>>

\* the response is sent: the slot is free for the next request
Recycle(r) ==
    /\ req[r].pc = "done"
    /\ req' = [req EXCEPT ![r] = IdleRequest]
    /\ IF req[r].endpoint = "root"
       THEN UNCHANGED <<page, input, pageData, scan, history>>
       ELSE /\ page' = NoPage
            /\ input' = NoInput
            /\ pageData' = NoPageData
            /\ scan' = [l \in Lists |-> IdleScanner]
            /\ history' = [history EXCEPT !.markup = NoFetch, !.trace = <<>>,
                                         !.target = <<>>]
    /\ UNCHANGED <<config, cachedFallback, loadCount>>

-----------------------------------------------------------------------------
(* Specifications *)

\* Spec: one request at a time on the favicon and /og/ endpoints
Init ==
    /\ config \in Configs
    /\ page = NoPage
    /\ input = NoInput
    /\ pageData = NoPageData
    /\ scan = [l \in Lists |-> IdleScanner]
    /\ req = [r \in Requests |-> IdleRequest]
    /\ cachedFallback = NotLoaded
    /\ loadCount = 0
    /\ history = HistoryOff

Next ==
    \/ Receive(PipelineSlot)
    \/ AnalyzePageReturns(PipelineSlot)
    \/ fetchBestFavicon
    \/ fetchBestOGImage("og")
    \/ PipelineSettles(PipelineSlot)
    \/ TimerFires(PipelineSlot)
    \/ HandleResult(PipelineSlot)
    \/ processImageReturns(PipelineSlot)
    \/ handleFallback(PipelineSlot)
    \/ fetchCustomDefaultReturns(PipelineSlot)
    \/ processFallbackReturns(PipelineSlot)
    \/ Recycle(PipelineSlot)

Spec == Init /\ [][Next]_vars

\* SpecCache: concurrent requests on the root endpoint, all in handleFallback
NextCache ==
    \E r \in Requests :
        \/ RootReceive(r)
        \/ handleFallback(r)
        \/ fetchCustomDefaultReturns(r)
        \/ processFallbackReturns(r)
        \/ Recycle(r)

SpecCache == Init /\ [][NextCache]_vars

\* SpecAnalyze: analyzePage on every page, then the resolver on one of its
\* lists; the social-image list depends neither on the configuration nor on size
InitAnalyze ==
    /\ \/ /\ page \in FavPages \cup FetchPages
          /\ config \in Configs
          /\ input \in Inputs
       \/ /\ page \in OgPages \cup MetaPages \cup SizePages \cup SocialPages
                          \cup ManifestSizePages \cup ReferencePages
          /\ config = [USE_FALLBACK_API |-> FALSE]
          /\ input = [url |-> U_aio, size |-> Undefined]
       \/ /\ input \in UrlInputs
          /\ page \in UrlPages(input.url)
          /\ config = [USE_FALLBACK_API |-> FALSE]
    /\ pageData = NoPageData
    /\ scan = [l \in Lists |-> IdleScanner]
    /\ req = [r \in Requests |-> IdleRequest]
    /\ cachedFallback = NotLoaded
    /\ loadCount = 0
    /\ history = HistoryOff

Analyze ==
    /\ "none" \in DOMAIN pageData
    /\ pageData' = analyzePage(input.url, input.size, config, page)
    /\ history' = [history EXCEPT !.markup = fetchHtml(page),
                                    !.trace = AnalysisTrace(page),
                                    !.target = targetUrl(input.url)]
    /\ UNCHANGED <<config, page, input, scan, req, cachedFallback, loadCount>>

\* a handler passes a non-empty list of pageData to its resolver
\* (index.ts 322-327)
StartResolver(l) ==
    /\ "none" \notin DOMAIN pageData
    /\ \A k \in Lists : scan[k].state = "idle"
    /\ LET images == IF l = "fav" THEN pageData.favicons ELSE pageData.ogImages
       IN /\ images # <<>>
          /\ scan' = [scan EXCEPT ![l] = StartedScanner(images)]
    /\ UNCHANGED <<config, page, input, pageData, req, cachedFallback, loadCount, history>>

NextAnalyze ==
    \/ Analyze
    \/ StartResolver("fav")
    \/ StartResolver("og")
    \/ fetchBestFavicon
    \/ fetchBestOGImage("og")

SpecAnalyze == InitAnalyze /\ [][NextAnalyze]_vars

\* SpecResolver: fetchBestOGImage on every list of candidates
InitResolver ==
    /\ config = [USE_FALLBACK_API |-> TRUE]
    /\ page = NoPage
    /\ input = NoInput
    /\ pageData = NoPageData
    /\ \E images \in ImageLists :
          scan = [l \in Lists |-> IF l = "og" THEN StartedScanner(images) ELSE IdleScanner]
    /\ req = [r \in Requests |-> IdleRequest]
    /\ cachedFallback = NotLoaded
    /\ loadCount = 0
    /\ history = HistoryOn

NextResolver == fetchBestOGImage("og")

SpecResolver == InitResolver /\ [][NextResolver]_vars

\* SpecFormat: fetchBestOGImage on candidates with every kind of hint, given
\* payloads with every kind of leading bytes
InitFormat ==
    /\ config = [USE_FALLBACK_API |-> TRUE]
    /\ page = [NoPage EXCEPT !.payloads = PayloadHeads]
    /\ input = NoInput
    /\ pageData = NoPageData
    /\ \E images \in FormatLists :
          scan = [l \in Lists |-> IF l = "og" THEN StartedScanner(images) ELSE IdleScanner]
    /\ req = [r \in Requests |-> IdleRequest]
    /\ cachedFallback = NotLoaded
    /\ loadCount = 0
    /\ history = HistoryOn

NextFormat == fetchBestOGImage("og")

SpecFormat == InitFormat /\ [][NextFormat]_vars

-----------------------------------------------------------------------------
(* Properties of the candidate resolver (SpecResolver) *)

\* C1: fetchBestOGImage is a first-success-wins linear scan. When it returns
\* candidate i, every candidate before i was tried and the world's answer to
\* it was no good image (an error, a non-2xx answer, an empty, oversized or
\* invalid payload), and no candidate after i is tried; when no answer is
\* good it tries them all and returns null.
C1_FirstSuccessWins ==
    LET sc == scan["og"]
        h == history.seen["og"]
        n == Len(sc.images)
    IN /\ Len(h) = (IF sc.state = "awaiting" THEN sc.idx - 1 ELSE sc.idx)
       /\ sc.state = "awaiting" <=> (sc.idx > 0 /\ sc.status[sc.idx] = "trying")
       /\ \A i \in 1..n :
             /\ i > sc.idx => sc.status[i] = "untried" /\ sc.fetchCalls[i] = 0
             /\ i <= sc.idx => sc.status[i] # "untried"
             /\ sc.status[i] = "failed" => h[i] # "good"
             /\ sc.status[i] = "returned" =>
                   /\ i = sc.idx
                   /\ sc.state = "done"
                   /\ h[i] = "good"
                   /\ \A j \in 1..(i - 1) : sc.status[j] = "failed" /\ h[j] # "good"
                   /\ ~sc.result.isNull
                   /\ sc.result.ord = sc.images[i].ord
                   /\ sc.result.url = sc.images[i].url
       /\ ~sc.result.isNull => sc.state = "done" /\ sc.status[sc.idx] = "returned"
       /\ (sc.state = "done" /\ sc.result.isNull) =>
             sc.idx = n /\ \A i \in 1..n : sc.status[i] = "failed"
       /\ (Len(h) = n /\ \A i \in 1..n : h[i] # "good") =>
             sc.state = "done" /\ sc.result.isNull

\* the second of three candidates is returned after the first has failed
C1_Witness ==
    /\ scan["og"].status = <<"failed", "returned", "untried">>
    /\ scan["og"].state = "done"

\* C3: a returned asset has 0 < length <= MAX_IMAGE_SIZE; a candidate whose
\* payload is empty or longer than MAX_IMAGE_SIZE is skipped, the scan goes
\* on with the next candidate, and returns null if there is none.
C3_SizeBounds ==
    LET sc == scan["og"]
        h == history.seen["og"]
    IN /\ ~sc.result.isNull =>
             sc.result.len > 0 /\ sc.result.len <= MAX_IMAGE_SIZE
       /\ \A i \in 1..Len(h) :
             h[i] \in {"empty", "oversized"} =>
                /\ sc.status[i] = "failed"
                /\ i < Len(sc.images) => (sc.idx > i \/ sc.state = "running")
                /\ i = Len(sc.images) => (sc.state = "done" /\ sc.result.isNull)

\* an oversized first payload, an empty second one, and the third is returned
C3_Witness ==
    /\ history.seen["og"] = <<"oversized", "empty", "good">>
    /\ scan["og"].status = <<"failed", "failed", "returned">>
    /\ scan["og"].result.len = MAX_IMAGE_SIZE

\* C4: a candidate whose reference is a data URI is never fetched over the
\* network, whether its decoding fails, succeeds or is never reached.
C4_DataUriNeverFetched ==
    LET sc == scan["og"]
    IN \A i \in 1..Len(sc.images) :
          isDataUrl(sc.images[i].url) => sc.fetchCalls[i] = 0

\* three data URIs: the first fails, the second succeeds, the third is skipped
C4_Witness ==
    LET sc == scan["og"]
    IN /\ Len(sc.images) = 3
       /\ \A i \in 1..3 : isDataUrl(sc.images[i].url)
       /\ sc.status = <<"failed", "returned", "untried">>

-----------------------------------------------------------------------------
(* Properties of analyzePage (SpecAnalyze) *)

Analyzed == "none" \notin DOMAIN pageData

\* list is in descending order of score, equal scores in the order pushed
SortedStable(list) ==
    \A i \in 1..Len(list), j \in 1..Len(list) :
        i < j => \/ list[i].score > list[j].score
                 \/ list[i].score = list[j].score /\ list[i].ord < list[j].ord

SameElements(a, b) ==
    Len(a) = Len(b) /\ {a[i] : i \in 1..Len(a)} = {b[i] : i \in 1..Len(b)}

ListOf(l) == IF l = "fav" THEN pageData.favicons ELSE pageData.ogImages

\* C2: the favicons and ogImages lists analyzePage returns, and the lists
\* the resolvers are given, hold every pushed candidate, sorted by score
\* descending, candidates of equal score in extraction order.
C2_SortedStable ==
    /\ Analyzed =>
          /\ SortedStable(pageData.favicons)
          /\ SortedStable(pageData.ogImages)
          /\ (\A l \in Lists : scan[l].state = "idle") =>
                /\ SameElements(pageData.favicons,
                                WithOrd(PushedFavicons(input.url, input.size, config, page)))
                /\ SameElements(pageData.ogImages, WithOrd(PushedOGImages(page)))
    /\ \A l \in Lists :
          scan[l].state # "idle" => scan[l].images = ListOf(l) /\ SortedStable(scan[l].images)

\* the resolver is given a favicon list with two candidates of the same score
C2_Witness ==
    /\ Analyzed
    /\ scan["fav"].state = "running"
    /\ Len(scan["fav"].images) >= 4
    /\ \E i \in 1..(Len(scan["fav"].images) - 1) :
          /\ scan["fav"].images[i].score = scan["fav"].images[i + 1].score
          /\ scan["fav"].images[i].source # scan["fav"].images[i + 1].source

\* C9: with USE_FALLBACK_API on, the fallback-api candidate is the last
\* element of the sorted favicon list of every page, below every link-tag,
\* manifest and static-fallback candidate; it is tried only after all the
\* others have failed and it is marked isFallback.
C9_FallbackApiLast ==
    (config.USE_FALLBACK_API /\ Analyzed) =>
        LET f == pageData.favicons
            n == Len(f)
            sc == scan["fav"]
        IN /\ n >= 1
           /\ f[n].source = "fallback-api"
           /\ f[n].isFallback = "true"
           /\ \A i \in 1..(n - 1) :
                 f[i].source \in {"link-tag", "manifest", "fallback"} /\ f[i].score > f[n].score
           /\ \A i \in 1..Len(sc.images) :
                 (sc.images[i].source = "fallback-api" /\ sc.status[i] # "untried") =>
                    /\ \A j \in 1..Len(sc.images) : j # i => sc.status[j] = "failed"
                    /\ sc.status[i] = "returned" => sc.result.isFallback = "true"

\* the fallback-api candidate is returned after a link-tag, a manifest and
\* the two static candidates have failed
C9_Witness ==
    LET sc == scan["fav"]
    IN /\ config.USE_FALLBACK_API
       /\ Len(sc.images) >= 5
       /\ sc.status[Len(sc.images)] = "returned"
       /\ sc.result.source = "fallback-api"
       /\ \E i \in 1..Len(sc.images) : sc.images[i].source = "manifest"
       /\ \E i \in 1..Len(sc.images) : sc.images[i].source = "link-tag"

-----------------------------------------------------------------------------
(* Properties of the request handlers (Spec) *)

\* the handler has gone past its await of the race
PastRace(q) == q.pc \notin {"idle", "race", "raced"}

InFallback(q) == q.pc \in {"handleFallback", "fetchCustomDefault", "processFallback"}

FallbackSources == {"fallback-api", "default"}

\* C5 as the specification states it: a request whose timer fired first is
\* answered by handleFallback, on both endpoints.
C5_TimeoutAlwaysFallsBack ==
    \A r \in Requests :
        (req[r].result.winner = "timer" /\ req[r].pc = "done") =>
            req[r].resp.via = "handleFallback"

\* C5 (amended): a request whose timer fired first is handled exactly as one
\* whose pipeline found no asset. It is routed to handleFallback, whose only
\* non-200 answer is 500 'Failed to fetch default image', except on the /og/
\* endpoint with skipFallback set, where it is answered 404 at once.
C5_TimeoutAsNoResult ==
    \A r \in Requests :
        LET q == req[r]
        IN /\ q.result.winner = "timer" => NoAsset(q)
           /\ (NoAsset(q) /\ PastRace(q)) =>
                 IF q.endpoint = "og" /\ q.skipFallback
                 THEN /\ q.pc = "done"
                      /\ q.resp.status = 404
                      /\ q.resp.via = "skipFallback"
                      /\ q.tried = {}
                 ELSE /\ InFallback(q) \/ q.pc = "done"
                      /\ q.pc = "done" =>
                            /\ q.resp.via = "handleFallback"
                            /\ \/ q.resp.status = 200
                               \/ /\ q.resp.status = 500
                                  /\ q.resp.error = "Failed to fetch default image"

\* on the favicon endpoint the timer fires while the resolvers are running
\* and the request is answered 200 by handleFallback
C5_Witness ==
    \E r \in Requests :
        /\ req[r].result.winner = "timer"
        /\ req[r].endpoint = "favicon"
        /\ req[r].pipeline = "resolving"
        /\ req[r].pc = "done"
        /\ req[r].resp.status = 200
        /\ req[r].resp.via = "handleFallback"

\* C6: when the caller gave a default image and it cannot be fetched or is no
\* valid image, the request is answered 500 'Failed to fetch default image';
\* the cached default is not asked for and not loaded for that request.
C6_DefaultFailureIsTerminal ==
    \A r \in Requests :
        LET q == req[r]
        IN q.defaultImage =>
              /\ "cached" \notin q.tried
              /\ q.tier # "cached"
              /\ q.cachedVersion = 0
              /\ (q.pc = "done" /\ "custom" \in q.tried /\ q.tier = "none") =>
                    /\ q.resp.status = 500
                    /\ q.resp.error = "Failed to fetch default image"
                    /\ q.resp.via = "handleFallback"

\* a request with a default image that could not be fetched is answered 500
C6_Witness ==
    \E r \in Requests :
        /\ req[r].defaultImage
        /\ req[r].pc = "done"
        /\ req[r].tried = {"custom"}
        /\ req[r].tier = "none"
        /\ req[r].resp.status = 500
        /\ loadCount = 0

\* C7: when the pipeline yields no asset, the answer's image comes from
\* exactly one fallback tier: the caller's default if and only if one was
\* given, else the cached default. No request asks two tiers, and a request
\* without asset that is not answered 200 ends in a terminal failure.
C7_ExactlyOneTier ==
    \A r \in Requests :
        LET q == req[r]
            one == IF q.defaultImage THEN "custom" ELSE "cached"
        IN /\ q.tried \subseteq {one}
           /\ q.tier \in {"none", one}
           /\ q.tier # "none" => q.tried = {q.tier}
           /\ (q.pc = "done" /\ q.resp.via = "handleFallback" /\ q.resp.status = 200) =>
                 q.tier = one
           /\ (q.pc = "done" /\ NoAsset(q)) =>
                 \/ q.resp.status = 200 /\ q.resp.via = "handleFallback" /\ q.tier = one
                 \/ /\ q.resp.status = 500
                    /\ q.resp.via = "handleFallback"
                    /\ q.tried = {one}
                 \/ /\ q.resp.status = 404
                    /\ q.endpoint = "og" /\ q.skipFallback
                    /\ q.tried = {}
           /\ (PastRace(q) /\ ~NoAsset(q)) => q.tried = {}

\* the pipeline finished without a favicon, no default image was given, and
\* the cached default is the answer
C7_Witness ==
    \E r \in Requests :
        /\ req[r].result.winner = "pipeline"
        /\ req[r].endpoint = "favicon"
        /\ req[r].result.favicon.isNull
        /\ ~req[r].defaultImage
        /\ req[r].pc = "done"
        /\ req[r].resp.status = 200
        /\ req[r].tier = "cached"
        /\ req[r].tried = {"cached"}

\* C8: an asset returned to the caller is marked isFallback if and only if
\* its source is fallback-api or default (the caller's or the cached default
\* image); link-tag, manifest, fallback, og:image, twitter:image and
\* schema.org assets are never marked.
C8_IsFallbackIffFallbackSource ==
    /\ \A l \in Lists :
          ~scan[l].result.isNull =>
             (scan[l].result.isFallback = "true" <=> scan[l].result.source \in FallbackSources)
    /\ \A r \in Requests :
          LET a == req[r].resp
          IN (req[r].pc = "done" /\ a.status = 200 /\ a.kind = "json") =>
                /\ a.source \in {"link-tag", "manifest", "fallback", "og:image",
                                 "twitter:image", "schema.org"} \cup FallbackSources
                /\ a.isFallback = "true" <=> a.source \in FallbackSources
                /\ a.ogSource # "absent" =>
                      (a.ogIsFallback = "true" <=> a.ogSource \in FallbackSources)

\* the favicon answered is the one of the external fallback service, together
\* with no social image
C8_Witness ==
    \E r \in Requests :
        /\ req[r].pc = "done"
        /\ req[r].resp.status = 200
        /\ req[r].resp.kind = "json"
        /\ req[r].resp.source = "fallback-api"
        /\ req[r].resp.isFallback = "true"
        /\ req[r].resp.via = "pipeline"

-----------------------------------------------------------------------------
(* Properties of the cached default image (SpecCache) *)

\* C10: the cached default image is loaded at most once, whatever the number
\* of requests that reach the cached tier and however they interleave, and
\* every such request holds the value of that one load.
C10_LoadedOnce ==
    /\ loadCount <= 1
    /\ cachedFallback.loaded <=> loadCount = 1
    /\ cachedFallback.loaded => cachedFallback.version = 1
    /\ \A r \in Requests :
          req[r].tier = "cached" =>
             /\ loadCount = 1
             /\ req[r].cachedVersion = cachedFallback.version

\* every request slot holds the cached default at the same time, after one load
C10_Witness ==
    /\ loadCount = 1
    /\ \A r \in Requests : req[r].tier = "cached" /\ req[r].pc = "processFallback"

-----------------------------------------------------------------------------
(* Properties of the extractors and of the scores (SpecAnalyze) *)

\* the candidates of list that carry source tag
OfSource(list, tag) == {i \in 1..Len(list) : list[i].source = tag}

\* C11: when the markup was fetched and the manifest fetch fails in any way
\* (network error or timeout, non-2xx, unparsable JSON, icons missing or no
\* array), analyzePage returns no manifest candidate and still returns every
\* link-tag candidate, the two static candidates and every social-image
\* candidate of the page.
C11_ManifestFailureIsLocal ==
    (Analyzed /\ fetchHtml(page).ok /\ page.manifest.kind # "icons"
       /\ \A l \in Lists : scan[l].state = "idle") =>
        /\ OfSource(pageData.favicons, "manifest") = {}
        /\ Cardinality(OfSource(pageData.favicons, "link-tag"))
              = Len(extractFaviconFromLinkTags(page.links, page.baseUrl))
        /\ Cardinality(OfSource(pageData.favicons, "fallback")) = 2
        /\ Cardinality(OfSource(pageData.ogImages, "og:image"))
              = Len(extractOGFromTags(page.metas, page.baseUrl))
        /\ Cardinality(OfSource(pageData.ogImages, "twitter:image"))
              = Len(extractOGFromTwitterTags(page.twitter, page.baseUrl))
        /\ Cardinality(OfSource(pageData.ogImages, "schema.org"))
              = Len(extractOGFromJsonLd(page.jsonld, page.baseUrl))

\* the manifest is no JSON; the link-tag, static, og:image and twitter:image
\* candidates are returned
C11_Witness ==
    /\ Analyzed
    /\ page.manifest.kind = "badjson"
    /\ OfSource(pageData.favicons, "manifest") = {}
    /\ Cardinality(OfSource(pageData.favicons, "link-tag")) = 1
    /\ Cardinality(OfSource(pageData.favicons, "fallback")) = 2
    /\ Len(pageData.ogImages) = 2

-----------------------------------------------------------------------------
(* Properties of a failed markup fetch (Spec) *)

\* both user-agent attempts of the request's page have failed
MarkupFetchFailed == Analyzed /\ ~fetchHtml(page).ok

-----------------------------------------------------------------------------
(* Properties of the scores (SpecAnalyze) *)

SizeThresholds == {32, 64, 128, 192, 256, 512}

\* the page has two icon <link> elements with declared sizes, alike in all
\* but sizes
TwoLinksButForSizes ==
    /\ Len(page.links) = 2
    /\ \A k \in 1..2 : Truthy(parseSizes(page.links[k].sizes))
    /\ Includes(page.links[1].rel, S_icon)
    /\ page.links[1].href # <<>>
    /\ [page.links[1] EXCEPT !.sizes = page.links[2].sizes] = page.links[2]

\* the candidate of list that was pushed at position k
Pushed(list, k) == list[CHOOSE i \in 1..Len(list) : list[i].ord = k]

\* C13: the score calculateFaviconScore gives to an icon is monotonic in its
\* declared size: of two link-tag candidates alike in all but size, the larger
\* never scores lower, and it scores strictly higher when a threshold (32, 64,
\* 128, 192, 256, 512) lies between the two sizes, as between 256 and 512.
C13_ScoreMonotonicInSize ==
    (Analyzed /\ TwoLinksButForSizes) =>
        LET a == Pushed(pageData.favicons, 1)
            b == Pushed(pageData.favicons, 2)
        IN /\ a.source = "link-tag" /\ b.source = "link-tag"
           /\ a.size.n <= b.size.n => a.score <= b.score
           /\ \A t \in SizeThresholds :
                 (a.size.n < t /\ t <= b.size.n) => a.score < b.score

\* sizes 256x256 and 512x512: the second candidate scores higher and is
\* sorted before the first
C13_Witness ==
    /\ Analyzed
    /\ TwoLinksButForSizes
    /\ Pushed(pageData.favicons, 1).size = Num(256)
    /\ Pushed(pageData.favicons, 2).size = Num(512)
    /\ pageData.favicons[1].ord = 2
    /\ pageData.favicons[1].score > pageData.favicons[2].score

\* the candidate declares neither width nor height
NoDimensions(c) == ~Truthy(c.width) /\ ~Truthy(c.height)

\* C14: every og:image candidate of a page scores strictly higher than its
\* twitter:image candidate, whatever width, height and type the og:image
\* declares, and stands before it in the sorted ogImages list.
C14_OgAboveTwitter ==
    Analyzed =>
        \A i \in OfSource(pageData.ogImages, "og:image"),
           j \in OfSource(pageData.ogImages, "twitter:image") :
            /\ pageData.ogImages[i].score > pageData.ogImages[j].score
            /\ i < j

\* og:image 1200 x 630 and a twitter:image: the og:image is first
C14_Witness ==
    /\ Analyzed
    /\ Len(pageData.ogImages) = 3
    /\ pageData.ogImages[1].source = "og:image"
    /\ pageData.ogImages[1].width = Num(1200)
    /\ pageData.ogImages[1].height = Num(630)
    /\ OfSource(pageData.ogImages, "twitter:image") # {}

\* C15 as the specification states it: every og:image and every
\* twitter:image candidate scores strictly higher than every schema.org
\* candidate.
C15_SourceOrderDominates ==
    Analyzed =>
        \A i \in OfSource(pageData.ogImages, "og:image")
                    \cup OfSource(pageData.ogImages, "twitter:image"),
           j \in OfSource(pageData.ogImages, "schema.org") :
            pageData.ogImages[i].score > pageData.ogImages[j].score

\* C15 (amended): the source order og:image > twitter:image > schema.org
\* decides between candidates of equal dimensions: an og:image and a
\* twitter:image candidate score strictly higher than a schema.org candidate
\* without dimensions, and an og:image strictly higher than a schema.org
\* candidate of the same width and height.
C15_SourceOrderAtEqualDimensions ==
    Analyzed =>
        \A j \in OfSource(pageData.ogImages, "schema.org") :
            LET c == pageData.ogImages[j]
            IN /\ \A i \in OfSource(pageData.ogImages, "twitter:image") :
                     NoDimensions(c) => pageData.ogImages[i].score > c.score /\ i < j
               /\ \A i \in OfSource(pageData.ogImages, "og:image") :
                     LET o == pageData.ogImages[i]
                     IN (NoDimensions(c) \/ (o.width = c.width /\ o.height = c.height)) =>
                           o.score > c.score /\ i < j

\* a schema.org image without dimensions stands after the og:image and the
\* twitter:image of its page
C15_Witness ==
    /\ Analyzed
    /\ Len(pageData.ogImages) = 3
    /\ pageData.ogImages[1].source = "og:image"
    /\ pageData.ogImages[2].source = "twitter:image"
    /\ pageData.ogImages[3].source = "schema.org"
    /\ NoDimensions(pageData.ogImages[3])

NonEmpty(v) == v.t = "string" /\ v.s # <<>>

\* the first non-empty value of the sources, absent when there is none
FirstNonEmpty(sources) ==
    IF \E i \in 1..Len(sources) : NonEmpty(sources[i])
    THEN sources[CHOOSE i \in 1..Len(sources) :
                     /\ NonEmpty(sources[i])
                     /\ \A j \in 1..(i - 1) : ~NonEmpty(sources[j])]
    ELSE Undefined

MarkupParsed == Analyzed /\ fetchHtml(page).ok

\* C16: title is og:title, else twitter:title, else the text of <title>;
\* description is og:description, else twitter:description, else the
\* description meta; siteName is og:site_name only; the first non-empty
\* source wins and a field with no non-empty source is absent.
C16_FirstNonEmptyOrAbsent ==
    MarkupParsed =>
        /\ pageData.metadata.title =
               FirstNonEmpty(<<page.head.ogTitle, page.head.twitterTitle,
                               Str(page.head.titleText)>>)
        /\ pageData.metadata.description =
               FirstNonEmpty(<<page.head.ogDescription, page.head.twitterDescription,
                               page.head.description>>)
        /\ pageData.metadata.siteName = FirstNonEmpty(<<page.head.ogSiteName>>)

\* the part of C16 the code keeps: a field with a non-empty source is the
\* first non-empty source of its chain
MetadataFirstNonEmptyWins ==
    MarkupParsed =>
        /\ (\E v \in {page.head.ogTitle, page.head.twitterTitle, Str(page.head.titleText)} :
                NonEmpty(v)) =>
               pageData.metadata.title =
                   FirstNonEmpty(<<page.head.ogTitle, page.head.twitterTitle,
                                   Str(page.head.titleText)>>)
        /\ (\E v \in {page.head.ogDescription, page.head.twitterDescription,
                      page.head.description} : NonEmpty(v)) =>
               pageData.metadata.description =
                   FirstNonEmpty(<<page.head.ogDescription, page.head.twitterDescription,
                                   page.head.description>>)
        /\ NonEmpty(page.head.ogSiteName) => pageData.metadata.siteName = page.head.ogSiteName

-----------------------------------------------------------------------------
(* Fetches of the candidate resolver (SpecResolver and Spec) *)

\* C17 as the specification states it: when the resolver has returned, every
\* candidate of its list that is not a data URI has been fetched exactly once.
C17_EveryCandidateFetchedOnce ==
    LET sc == scan["og"]
    IN sc.state = "done" =>
          \A i \in 1..Len(sc.images) :
             ~isDataUrl(sc.images[i].url) => sc.fetchCalls[i] = 1

\* C17 (amended): a candidate that is not a data URI is fetched exactly once
\* if the scan reaches it and never more than once; the candidates ranked
\* after the returned one are not reached and are never fetched.
C17_ReachedCandidateFetchedOnce ==
    LET sc == scan["og"]
    IN \A i \in 1..Len(sc.images) :
          /\ ~isDataUrl(sc.images[i].url) =>
                sc.fetchCalls[i] = (IF sc.status[i] = "untried" THEN 0 ELSE 1)
          /\ sc.state = "done" =>
                (sc.status[i] = "untried" <=>
                    \E j \in 1..(i - 1) : sc.status[j] = "returned")

\* three network candidates: the first fails, the second is returned, the
\* third is never fetched
C17_Witness ==
    LET sc == scan["og"]
    IN /\ sc.state = "done"
       /\ Len(sc.images) = 3
       /\ \A i \in 1..3 : ~isDataUrl(sc.images[i].url)
       /\ sc.fetchCalls = <<1, 1, 0>>
       /\ sc.status = <<"failed", "returned", "untried">>

\* the candidates of list l whose iteration is under way
InFlight(l) == {i \in 1..Len(scan[l].images) : scan[l].status[i] = "trying"}

\* C20: in one list at most one candidate is in flight, and a candidate is
\* taken up only after every candidate before it has failed.
C20_OneInFlightPerList ==
    \A l \in Lists :
        /\ Cardinality(InFlight(l)) <= 1
        /\ \A i \in 1..Len(scan[l].images) :
              (scan[l].status[i] # "untried" \/ scan[l].fetchCalls[i] > 0) =>
                  \A j \in 1..(i - 1) : scan[l].status[j] = "failed"

\* the favicon list and the OG-image list of one request each have a
\* candidate in flight, the second of its list
C20_Witness ==
    /\ req[PipelineSlot].pipeline = "resolving"
    /\ \A l \in Lists :
          /\ InFlight(l) = {2}
          /\ scan[l].fetchCalls[2] = 1
          /\ scan[l].status[1] = "failed"

-----------------------------------------------------------------------------
(* The markup fetcher (SpecAnalyze) *)

\* the attempt was answered with a 2xx status
SuccessStatus(outcome) == outcome \in {"ok", "bodyerror"}

\* at most two requests, the configured user-agent first, the browser one second
AgentsInOrder ==
    \/ history.markup.agents = <<"USER_AGENT">>
    \/ history.markup.agents = <<"USER_AGENT", "BROWSER_USER_AGENT">>

\* C18 as the specification states it: at most two attempts in a fixed order;
\* attempt 2 is issued if and only if attempt 1 did not return a success
\* status; fetchHtml fails only after attempt 2 has failed too.
C18_SecondAttemptIffNoSuccessStatus ==
    Analyzed =>
        /\ AgentsInOrder
        /\ Len(history.markup.agents) = 2 <=> ~SuccessStatus(page.attempt1)
        /\ ~history.markup.ok =>
              Len(history.markup.agents) = 2 /\ page.attempt2 # "ok"

\* C18 (amended): at most two attempts in a fixed order; attempt 2 is issued
\* if and only if attempt 1 did not deliver the document (network error,
\* timeout, non-2xx status, or a 2xx response whose body could not be read);
\* fetchHtml fails if and only if attempt 2 is issued and fails too.
C18_SecondAttemptIffFirstFailed ==
    Analyzed =>
        /\ AgentsInOrder
        /\ Len(history.markup.agents) = 2 <=> page.attempt1 # "ok"
        /\ ~history.markup.ok <=>
              (Len(history.markup.agents) = 2 /\ page.attempt2 # "ok")
        /\ history.markup.ok <=> Len(pageData.favicons) >= 2

\* the first answer has a 2xx status and an unreadable body; the second
\* attempt delivers the page
C18_Witness ==
    /\ Analyzed
    /\ page.attempt1 = "bodyerror"
    /\ history.markup.agents = <<"USER_AGENT", "BROWSER_USER_AGENT">>
    /\ history.markup.ok
    /\ pageData.ogImages # <<>>

-----------------------------------------------------------------------------
(* The pipeline after the deadline (Spec) *)

\* the timer has won the race of request r and its pipeline is still at work
LatePipeline(r) ==
    /\ req[r].result.winner = "timer"
    /\ req[r].pipeline \in {"analyzePage", "resolving"}

\* a step of the late pipeline of r (analyzePage returns, a resolver moves,
\* the pipeline promise resolves) leaves the handler's view of the request,
\* its response and the state shared by the requests as they are
LateStepIsDiscarded(r) ==
    (/\ LatePipeline(r)
     /\ req'[r].pipeline \in {"analyzePage", "resolving", "settled"}
     /\ pageData' # pageData \/ scan' # scan \/ req'[r].pipeline # req[r].pipeline) =>
        /\ req'[r] = [req[r] EXCEPT !.pipeline = req'[r].pipeline]
        /\ cachedFallback' = cachedFallback
        /\ loadCount' = loadCount
        /\ config' = config

\* a response that has been sent is the only one: it stays as it is until the
\* handler has returned
OneResponse(r) ==
    req[r].resp # NoResponse =>
        \/ req'[r].resp = req[r].resp /\ req'[r].pc = "done"
        \/ req'[r] = IdleRequest

\* C19 as the specification states it: once the timer has won, the response is
\* the fallback chosen at the deadline, there is exactly one response, and
\* the late pipeline changes neither the response nor shared state.
C19_LateResultDiscardedAfterFallback ==
    /\ [](\A r \in Requests :
             (req[r].result.winner = "timer" /\ req[r].pc = "done") =>
                 req[r].resp.via = "handleFallback")
    /\ [][\A r \in Requests : LateStepIsDiscarded(r) /\ OneResponse(r)]_vars

\* C19 (amended): once the timer has won, the result stays the timer's null
\* and the response is the one chosen at the deadline: that of handleFallback,
\* or the 404 of the /og/ endpoint with skipFallback set; there is exactly one
\* response, and the late pipeline changes neither the response nor shared
\* state.
C19_LateResultDiscarded ==
    /\ [](\A r \in Requests :
             req[r].result.winner = "timer" =>
                 /\ req[r].result = [NoResult EXCEPT !.winner = "timer"]
                 /\ req[r].pc = "done" =>
                       IF req[r].endpoint = "og" /\ req[r].skipFallback
                       THEN req[r].resp.via = "skipFallback"
                       ELSE req[r].resp.via = "handleFallback")
    /\ [][\A r \in Requests : LateStepIsDiscarded(r) /\ OneResponse(r)]_vars

\* the timer won, handleFallback has answered 200, and the pipeline has
\* resolved afterwards with a favicon nobody takes
C19_Witness ==
    \E r \in Requests :
        /\ req[r].result.winner = "timer"
        /\ req[r].pipeline = "settled"
        /\ req[r].pc = "done"
        /\ req[r].resp.status = 200
        /\ req[r].resp.via = "handleFallback"
        /\ ~scan["fav"].result.isNull

-----------------------------------------------------------------------------
(* Discovery requests of analyzePage (SpecAnalyze) *)

EventsOf(kind, target) ==
    {i \in 1..Len(history.trace) :
        history.trace[i].kind = kind /\ history.trace[i].target = target}

ExtractorRuns == {i \in 1..Len(history.trace) : history.trace[i].kind = "extract"}

\* C21: one analysis requests the page (once or twice, the two user-agent
\* attempts) and at most one manifest and nothing else; the manifest is
\* requested once, with the configured user-agent, only after a successful
\* markup fetch; no extractor runs before the markup fetch has completed.
C21_DiscoveryRequests ==
    Analyzed =>
        /\ \A i \in 1..Len(history.trace) :
              history.trace[i].kind = "request" =>
                  history.trace[i].target \in {"page", "manifest"}
        /\ Cardinality(EventsOf("request", "page")) \in {1, 2}
        /\ EventsOf("request", "page") = 1..Len(history.markup.agents)
        /\ Cardinality(EventsOf("request", "manifest")) =
               (IF history.markup.ok THEN 1 ELSE 0)
        /\ \A m \in EventsOf("request", "manifest") :
              /\ history.trace[m].agent = "USER_AGENT"
              /\ \A i \in EventsOf("request", "page") : i < m
        /\ \A e \in ExtractorRuns :
              /\ history.markup.ok
              /\ \A i \in EventsOf("request", "page") : i < e
        /\ ~history.markup.ok => pageData.ogImages = <<>>

\* the first attempt fails, the second succeeds, and the manifest is then
\* requested once
C21_Witness ==
    /\ Analyzed
    /\ page.attempt1 = "non2xx"
    /\ Cardinality(EventsOf("request", "page")) = 2
    /\ Cardinality(EventsOf("request", "manifest")) = 1
    /\ ExtractorRuns # {}
    /\ page.manifest.kind = "icons"
    /\ OfSource(pageData.favicons, "manifest") # {}

-----------------------------------------------------------------------------
(* Static fallback locations and manifest scores (SpecAnalyze) *)

\* the list holds a candidate of the static fallback location path, with score
HasStaticFallback(list, path, score) ==
    \E i \in 1..Len(list) :
        /\ list[i].url = page.baseUrl \o path
        /\ list[i].source = "fallback"
        /\ list[i].score = score

HasBothStaticFallbacks(list) ==
    /\ HasStaticFallback(list, S_faviconIco, 10)
    /\ HasStaticFallback(list, S_appleTouchIconPng, 20)

\* C22 as the specification states it: every favicon list analyzePage returns
\* holds {origin}/favicon.ico with score 10 and {origin}/apple-touch-icon.png
\* with score 20.
C22_StaticFallbacksAlways ==
    Analyzed => HasBothStaticFallbacks(pageData.favicons)

\* C22 (amended): when the markup fetch succeeds the favicon list holds both
\* static fallback candidates, with scores 10 and 20, whatever the markup
\* and the manifest are, and no other candidate of source fallback; when the
\* markup fetch fails it holds neither.
C22_StaticFallbacksAfterFetch ==
    Analyzed =>
        IF history.markup.ok
        THEN /\ HasBothStaticFallbacks(pageData.favicons)
             /\ Cardinality(OfSource(pageData.favicons, "fallback")) = 2
        ELSE OfSource(pageData.favicons, "fallback") = {}

\* a page without any link element or manifest icon: the two static
\* fallbacks are its only candidates, apple-touch-icon.png first
C22_Witness ==
    /\ Analyzed
    /\ history.markup.ok
    /\ page.links = <<>>
    /\ ~config.USE_FALLBACK_API
    /\ Len(pageData.favicons) = 2
    /\ pageData.favicons[1].url = page.baseUrl \o S_appleTouchIconPng
    /\ pageData.favicons[2].url = page.baseUrl \o S_faviconIco

\* C23: the score of every icon candidate, manifest icons included, is
\* calculateFaviconScore of its declared size and format, so of two manifest
\* icons alike but for sizes 512 and 32 the larger scores strictly higher.
C23_ManifestScoredBySize ==
    Analyzed =>
        \A i \in OfSource(pageData.favicons, "manifest") :
            LET c == pageData.favicons[i]
            IN /\ c.score = calculateFaviconScore(c.size, c.format, <<>>)
               /\ \A j \in OfSource(pageData.favicons, "manifest") :
                     LET d == pageData.favicons[j]
                     IN (c.size = Num(512) /\ d.size = Num(32)
                         /\ c.format = d.format) => c.score > d.score

\* what the code does: every manifest candidate scores 40, whatever its size
\* and format
ManifestScoreIsFixed ==
    Analyzed =>
        \A i \in OfSource(pageData.favicons, "manifest") :
            pageData.favicons[i].score = 40

-----------------------------------------------------------------------------
(* The URL resolver (SpecAnalyze) *)

\* the rule of the URL resolver in the words of the specification
ResolvedByRule(ref, origin) ==
    IF StartsWith(ref, S_data) THEN ref
    ELSE IF HasScheme(ref) THEN ref
    ELSE IF StartsWith(ref, <<"/", "/">>) THEN S_https \o ref
    ELSE IF StartsWith(ref, <<"/">>) THEN origin \o ref
    ELSE origin \o <<"/">> \o ref

\* a page with a single <link> whose rel contains icon and whose href is set
OneIconLink ==
    /\ Analyzed
    /\ history.markup.ok
    /\ Len(page.links) = 1
    /\ Includes(page.links[1].rel, S_icon)
    /\ page.links[1].href # <<>>

\* C24: the URL resolver returns data URIs and every reference with a scheme
\* (any scheme) unchanged, prefixes //host/path with https:, prefixes /path
\* with the base origin, and makes every other reference, one that begins
\* with the letters http included, origin-root-relative with one "/".
C24_ResolvedByRule ==
    OneIconLink =>
        \A i \in OfSource(pageData.favicons, "link-tag") :
            pageData.favicons[i].url = ResolvedByRule(page.links[1].href, page.baseUrl)

\* what the code keeps of C24: the rule holds for every reference that begins
\* with the letters http only if it has a scheme, and has no scheme other
\* than http, https or data
ResolvedByRuleButForHttpPrefix ==
    (/\ OneIconLink
     /\ HasScheme(page.links[1].href) <=> (\/ StartsWith(page.links[1].href, S_http)
                                           \/ StartsWith(page.links[1].href, S_data))) =>
        \A i \in OfSource(pageData.favicons, "link-tag") :
            pageData.favicons[i].url = ResolvedByRule(page.links[1].href, page.baseUrl)

-----------------------------------------------------------------------------
(* The input of analyzePage (SpecAnalyze) *)

\* the normalization in the words of the specification
NormalizedByRule(url) == IF HasScheme(url) THEN url ELSE S_httpsSlashes \o url

\* C25: analyzePage fetches https://<input> exactly when the input carries
\* no scheme, an input that begins with the letters http included, and
\* fetches every input with a scheme unchanged.
C25_NormalizedByRule ==
    Analyzed => history.target = NormalizedByRule(input.url)

\* what the code keeps of C25: the rule holds for every input that begins
\* with the letters http exactly when it carries a scheme
NormalizedByRuleButForHttpPrefix ==
    (Analyzed /\ (HasScheme(input.url) <=> StartsWith(input.url, S_http))) =>
        history.target = NormalizedByRule(input.url)

\* an input that begins with http and has no scheme is fetched as it is: the
\* fetch is rejected and the analysis returns nothing
HttpPrefixInputIsNotFetched ==
    (Analyzed /\ input.url = U_httpaio) =>
        /\ history.target = U_httpaio
        /\ ~history.markup.ok
        /\ pageData.favicons = <<>>

-----------------------------------------------------------------------------
(* The format of a resolved asset (SpecFormat) *)

\* the format of the magic-byte rule the bytes match, "" if they match none
MagicRule(bytes) ==
    IF StartsWith(bytes, <<137, 80>>) THEN "png"
    ELSE IF StartsWith(bytes, <<255, 216>>) THEN "jpg"
    ELSE IF StartsWith(bytes, <<82, 73>>) THEN "webp"
    ELSE IF StartsWith(bytes, <<71, 73, 70>>) THEN "gif"
    ELSE IF \E i \in 1..2 : /\ i + 3 <= Len(bytes)
                             /\ SubSeq(bytes, i, i + 3) = <<60, 115, 118, 103>> THEN "svg"
    ELSE ""

\* the formats the hint names
NamedFormats(hint) ==
    {f \in {"png", "jpg", "webp", "svg", "gif"} :
        \/ f = "png" /\ Includes(hint, S_png)
        \/ f = "jpg" /\ (Includes(hint, S_jpeg) \/ Includes(hint, S_jpg))
        \/ f = "webp" /\ Includes(hint, S_webp)
        \/ f = "svg" /\ Includes(hint, S_svg)
        \/ f = "gif" /\ Includes(hint, S_gif)}

\* C26: the format of a resolved asset is that of the magic-byte rule its
\* bytes match, whatever the hint; the hint (the MIME of a data URL, else the
\* declared type) is asked only if no rule matches, and the format is png if
\* the hint names none; so a data URI whose bytes are PNG has format png.
C26_MagicBytesFirst ==
    LET sc == scan["og"]
    IN ~sc.result.isNull =>
          LET image == sc.images[sc.idx]
              hint == IF isDataUrl(image.url) /\ DataUrlMime(image.url) # <<>>
                      THEN DataUrlMime(image.url) ELSE image.type
          IN /\ MagicRule(history.payload) # "" =>
                   sc.result.format = MagicRule(history.payload)
             /\ MagicRule(history.payload) = "" =>
                   IF NamedFormats(hint) = {} THEN sc.result.format = "png"
                   ELSE sc.result.format \in NamedFormats(hint)
             /\ (isDataUrl(image.url) /\ StartsWith(history.payload, <<137, 80>>)) =>
                   sc.result.format = "png"

\* a data URL that declares image/jpeg and decodes to PNG bytes is returned
\* with format png
C26_Witness ==
    /\ ~scan["og"].result.isNull
    /\ scan["og"].result.url = U_dataJpeg
    /\ history.payload = PngBytes
    /\ scan["og"].result.format = "png"

\* bytes that match no rule take the format the hint names
C26_HintWitness ==
    /\ ~scan["og"].result.isNull
    /\ scan["og"].result.url = U_sJpg
    /\ history.payload = <<0, 0, 0>>
    /\ scan["og"].result.format = "webp"

-----------------------------------------------------------------------------
(* skipFallback (Spec) *)

\* the race of request r is over and left no asset, or one marked isFallback
NothingOwnToServe(r) ==
    LET q == req[r]
        primary == IF q.endpoint = "og" THEN q.result.ogImage ELSE q.result.favicon
    IN /\ q.result.winner # "none"
       /\ q.pc \notin {"race", "raced"}
       /\ NoAsset(q) \/ primary.isFallback = "true"

\* C27: with skipFallback set neither endpoint answers with a fallback asset:
\* whenever the pipeline yields no asset (no candidate, every candidate
\* failed, the deadline) or an asset marked isFallback, the favicon endpoint
\* and the /og/ endpoint answer 404 and handleFallback is not invoked.
C27_SkipFallbackAnswers404 ==
    \A r \in Requests :
        (req[r].skipFallback /\ NothingOwnToServe(r)) =>
            /\ req[r].pc = "done"
            /\ req[r].resp.status = 404
            /\ req[r].resp.via = "skipFallback"
            /\ req[r].tried = {}

\* what the handlers do: the /og/ endpoint answers 404 in both cases, the
\* favicon endpoint only for an asset marked isFallback
SkipFallbackAnswers404ButForNoFavicon ==
    \A r \in Requests :
        (/\ req[r].skipFallback
         /\ NothingOwnToServe(r)
         /\ req[r].endpoint = "og" \/ ~NoAsset(req[r])) =>
            /\ req[r].pc = "done"
            /\ req[r].resp.status = 404
            /\ req[r].resp.via = "skipFallback"
            /\ req[r].tried = {}

\* the favicon endpoint with skipFallback set answers from handleFallback
SkipFallbackFaviconFallsBack ==
    \E r \in Requests :
        /\ req[r].skipFallback
        /\ req[r].endpoint = "favicon"
        /\ NothingOwnToServe(r)
        /\ req[r].pc = "done"
        /\ req[r].resp.via = "handleFallback"
        /\ req[r].resp.status = 200

-----------------------------------------------------------------------------
(* The favicon and the social image of one request (Spec) *)

\* the race of favicon request r ends in this step, fetchBestFavicon having
\* returned an asset before
RaceEndsWithFaviconFound(r) ==
    /\ req[r].endpoint = "favicon"
    /\ req[r].pc = "race"
    /\ scan["fav"].state = "done"
    /\ ~scan["fav"].result.isNull
    /\ req'[r].pc = "raced"

\* C28: on the favicon endpoint, a favicon that the resolver obtained before
\* the deadline timer fired is the favicon the handler is given by the race,
\* whatever the resolution of the social images does: succeed, fail, or not
\* complete.
C28_FaviconIndependentOfOg ==
    [][\A r \in Requests :
          RaceEndsWithFaviconFound(r) =>
              /\ req'[r].result.winner = "pipeline"
              /\ req'[r].result.favicon = scan["fav"].result]_vars

\* the case of a social-image resolution that has not completed
FaviconSurvivesPendingOg ==
    [][\A r \in Requests :
          (RaceEndsWithFaviconFound(r) /\ scan["og"].state \notin {"idle", "done"}) =>
              /\ req'[r].result.winner = "pipeline"
              /\ req'[r].result.favicon = scan["fav"].result]_vars

\* C28 (amended): the pipeline settles only when both resolutions have
\* completed. If it settles before the timer fires, the handler is given the
\* favicon whether the social images succeeded or failed, and answers from it
\* (never from handleFallback); if the timer fires first, because the social
\* images are still being resolved, the favicon is discarded with the rest.
C28_FaviconServedIfBothComplete ==
    /\ [](\A r \in Requests :
             LET q == req[r]
             IN (/\ q.endpoint = "favicon"
                 /\ q.result.winner = "pipeline"
                 /\ ~q.result.favicon.isNull) =>
                    /\ q.pc \in {"raced", "processImage", "done"}
                    /\ q.tried = {}
                    /\ q.pc = "done" =>
                          IF q.skipFallback /\ q.result.favicon.isFallback = "true"
                          THEN q.resp.via = "skipFallback"
                          ELSE /\ q.resp.via = "pipeline"
                               /\ (q.resp.status = 200 /\ q.response = "json") =>
                                     q.resp.source = q.result.favicon.source)
    /\ [][\A r \in Requests :
             RaceEndsWithFaviconFound(r) =>
                 IF req'[r].pipeline = "settled"
                 THEN /\ \A l \in Lists : scan[l].state \in {"idle", "done"}
                      /\ req'[r].result.winner = "pipeline"
                      /\ req'[r].result.favicon = scan["fav"].result
                      /\ req'[r].result.ogImage = scan["og"].result
                 ELSE req'[r].result = [NoResult EXCEPT !.winner = "timer"]]_vars

\* every social image of the page failed, and the favicon is answered
C28_Witness ==
    \E r \in Requests :
        /\ req[r].endpoint = "favicon"
        /\ req[r].pc = "done"
        /\ req[r].result.winner = "pipeline"
        /\ ~req[r].result.favicon.isNull
        /\ Len(pageData.ogImages) > 0
        /\ req[r].result.ogImage.isNull
        /\ req[r].resp.via = "pipeline"
        /\ req[r].resp.status = 200

-----------------------------------------------------------------------------
(* The two copies of the social-image discovery (SpecAnalyze) *)

\* (url, score, source) of every candidate of a list, in order
UrlScoreSource(list) ==
    [i \in 1..Len(list) |->
        [url |-> list[i].url, score |-> list[i].score, source |-> list[i].source]]

\* every reference of the page: the href of its links, the content of its
\* og:image and twitter:image tags, the images of its JSON-LD blocks
ReferencesOf(pg) ==
    {pg.links[i].href : i \in 1..Len(pg.links)}
    \cup {pg.metas[i].content : i \in 1..Len(pg.metas)}
    \cup {pg.twitter}
    \cup UNION { {pg.jsonld[i].images[k].url : k \in 1..Len(pg.jsonld[i].images)} :
                 i \in {j \in 1..Len(pg.jsonld) : pg.jsonld[j].valid} }

\* C29: the two copies of the social-image logic agree: calculateScore of
\* og-finder and calculateOGScore of page-analyzer give the same score for
\* the dimensions, source and type of every candidate, the two resolveUrl
\* give the same string for every reference, and findOGImages and analyzePage
\* produce the same ordered list of (url, score, source) for every page
\* (compared when analyzePage has returned, before a resolver is started).
C29_CopiesAgree ==
    (Analyzed /\ \A l \in Lists : scan[l].state = "idle") =>
        /\ \A i \in 1..Len(pageData.ogImages) :
              LET c == pageData.ogImages[i]
              IN \A source \in {"og:image", "twitter:image", "schema.org"} :
                    calculateScore(c.width, c.height, source, c.type)
                        = calculateOGScore(c.width, c.height, source, c.type)
        /\ \A ref \in ReferencesOf(page) :
              ogFinderResolveUrl(ref, page.baseUrl) = resolveUrl(ref, page.baseUrl)
        /\ UrlScoreSource(findOGImages(page)) = UrlScoreSource(pageData.ogImages)

\* a page with an og:image of declared type, a twitter:image and a JSON-LD
\* image of full size: both functions list the three, the JSON-LD image first
C29_Witness ==
    /\ Analyzed
    /\ \A l \in Lists : scan[l].state = "idle"
    /\ Len(pageData.ogImages) = 3
    /\ {pageData.ogImages[i].source : i \in 1..3} = {"og:image", "twitter:image", "schema.org"}
    /\ pageData.ogImages[1].source = "schema.org"
    /\ Truthy(pageData.ogImages[1].width) /\ Truthy(pageData.ogImages[1].height)
    /\ \E i \in 2..3 : pageData.ogImages[i].type # <<>>
    /\ UrlScoreSource(findOGImages(page)) = UrlScoreSource(pageData.ogImages)

=============================================================================
